---- MODULE Spec2Model ----
(***************************************************************************)
(* Vector-model regularization terms of SimPEG/regularization/vector.py:   *)
(* CrossReferenceRegularization, AmplitudeSmallness and                    *)
(* AmplitudeSmoothnessFirstOrder, as one regularization term whose class,  *)
(* mesh and mapping are fixed at construction and whose reference field,   *)
(* weights and cached matrices change through its setters and properties.  *)
(*                                                                         *)
(* Real numbers are integers here.  A numpy array is a record              *)
(* [shape, data] with data in C (row-major) order.  A sparse matrix is a   *)
(* record [shape, at] with at[i][j] its entry.  An Euclidean norm is       *)
(* carried by its square wherever only products of norms are taken, so     *)
(* that the arithmetic stays exact.                                        *)
(***************************************************************************)
EXTENDS Integers, Sequences, FiniteSets, TLC

VARIABLES
    cls,                  \* class of the term
    regularization_mesh,  \* [nC, dim, vol]
    orientation,          \* "x" | "y" | "z" (smoothness terms)
    mapping,              \* [name, star, nP, P]
    reference_model,      \* [has, v]
    stage,                \* "super" (base class built) | "ready" | "raised"
    _ref_dir,             \* [has, v]: the stored reference field
    _X,                   \* [has, v]: the cross-product operator
    _weights,             \* sequence of [key, value], in insertion order
    _W,                   \* [has, v]: the cached weighting matrix
    call,                 \* the last operation: [op, arg, raised, ret]
    composite             \* a VectorAmplitude: [_regularization_mesh, objfcts, terms]

vars == << composite, cls, regularization_mesh, orientation, mapping, reference_model,
           stage, _ref_dir, _X, _weights, _W, call >>

----------------------------------------------------------------------------
(* Bounds *)

MaxNC == 2

----------------------------------------------------------------------------
(* numpy arrays *)

\* the function f with its entries computed once, not once for every use
Evaluated(f) == IF f = f THEN f ELSE f

Array(shape, data) == [shape |-> shape, data |-> data]

Arr1(s) == Array(<<Len(s)>>, s)

None == [has |-> FALSE]

Some(v) == [has |-> TRUE, v |-> v]

RECURSIVE SumTo(_, _)
SumTo(f, n) == IF n = 0 THEN 0 ELSE f[n] + SumTo(f, n - 1)

\* value[:, k] of a 2-D array, k counted from 0
Column(value, k) ==
    [i \in 1..value.shape[1] |-> value.data[(i - 1) * value.shape[2] + k + 1]]

\* value[i, :] of a 2-D array, i counted from 1
Row(value, i) ==
    [k \in 1..value.shape[2] |-> value.data[(i - 1) * value.shape[2] + k]]

\* np.repeat-like layout: each entry of value repeated nC times
TileRepeat(value, nC) ==
    Array(<<nC, value.shape[1]>>,
          [p \in 1..(nC * value.shape[1]) |-> value.data[((p - 1) \div nC) + 1]])

\* np.tile(value, (nC, 1)) of a 1-D array: nC rows, each equal to value
Tile(value, nC) ==
    Array(<<nC, value.shape[1]>>,
          [p \in 1..(nC * value.shape[1]) |->
              value.data[((p - 1) % value.shape[1]) + 1]])

\* the entries of an array of at most two dimensions in Fortran order
RavelF(a) ==
    IF Len(a.shape) < 2 THEN a.data
    ELSE [p \in 1..Len(a.data) |->
            a.data[((p - 1) % a.shape[1]) * a.shape[2] + ((p - 1) \div a.shape[1]) + 1]]

\* a.reshape((r, c), order="C")
ReshapeC(a, r, c) == Array(<<r, c>>, a.data)

\* a.reshape((r, c), order="F"): read in Fortran order, fill in Fortran order
ReshapeF(a, r, c) ==
    Array(<<r, c>>,
          [p \in 1..(r * c) |-> RavelF(a)[((p - 1) % c) * r + ((p - 1) \div c) + 1]])

\* the square of np.linalg.norm(a, axis=1) of a 2-D array
NormSqAxis1(a) ==
    [i \in 1..a.shape[1] |-> SumTo([k \in 1..a.shape[2] |-> Row(a, i)[k] * Row(a, i)[k]], a.shape[2])]

----------------------------------------------------------------------------
(* scipy.sparse matrices.  Every matrix built here is a block matrix of   *)
(* diagonal blocks of one size b: [shape, b, blocks], blocks[I][J] being  *)
(* the diagonal of block (I, J).                                          *)

Matrix(r, c, b, blocks) == [shape |-> <<r, c>>, b |-> b, blocks |-> blocks]

\* the entry (i, j) of a matrix
Entry(M, i, j) ==
    IF (i - 1) % M.b = (j - 1) % M.b
    THEN M.blocks[((i - 1) \div M.b) + 1][((j - 1) \div M.b) + 1][((i - 1) % M.b) + 1]
    ELSE 0

\* sp.diags(v)
Diags(v) == Matrix(Len(v), Len(v), Len(v), << <<v>> >>)

\* sp.csr_matrix((n, n))
Zeros(n) == Matrix(n, n, n, << <<[i \in 1..n |-> 0]>> >>)

\* -M
Neg(M) ==
    Matrix(M.shape[1], M.shape[2], M.b,
           [I \in 1..Len(M.blocks) |-> [J \in 1..Len(M.blocks[I]) |->
               [i \in 1..M.b |-> 0 - M.blocks[I][J][i]]]])

\* sp.bmat(blocks) of diagonal matrices of one size
BMat(blocks) ==
    LET b == blocks[1][1].b
    IN Matrix(Len(blocks) * b, Len(blocks[1]) * b, b,
              [I \in 1..Len(blocks) |-> [J \in 1..Len(blocks[1]) |->
                  blocks[I][J].blocks[1][1]]])

Ok(v) == [raised |-> "none", v |-> Evaluated(v)]

Raise(e) == [raised |-> e, v |-> <<>>]

\* M @ v; scipy raises ValueError on a dimension mismatch
MatVec(M, v) ==
    IF Len(v) # M.shape[2] THEN Raise("ValueError")
    ELSE Ok([p \in 1..M.shape[1] |->
               SumTo([J \in 1..(M.shape[2] \div M.b) |->
                         M.blocks[((p - 1) \div M.b) + 1][J][((p - 1) % M.b) + 1]
                             * v[(J - 1) * M.b + ((p - 1) % M.b) + 1]],
                     M.shape[2] \div M.b)])

----------------------------------------------------------------------------
(* Matrices whose blocks are not diagonal (the cell gradient and its       *)
(* products) are held entry by entry: [shape, at], at[i][j] the entry.     *)

Dense(r, c, at) == [shape |-> <<r, c>>, at |-> Evaluated(at)]

\* the entries of a block matrix of diagonal blocks
ToDense(M) ==
    Dense(M.shape[1], M.shape[2],
          [i \in 1..M.shape[1] |-> [j \in 1..M.shape[2] |-> Entry(M, i, j)]])

\* sp.identity(n)
Identity(n) ==
    Dense(n, n, [i \in 1..n |-> [j \in 1..n |-> IF i = j THEN 1 ELSE 0]])

\* A.T
Transpose(A) ==
    Dense(A.shape[2], A.shape[1],
          [i \in 1..A.shape[2] |-> [j \in 1..A.shape[1] |-> A.at[j][i]]])

\* sp.block_diag([A] * n)
BlockDiag(A, n) ==
    LET r == A.shape[1]
        c == A.shape[2]
    IN Dense(n * r, n * c,
             [i \in 1..(n * r) |-> [j \in 1..(n * c) |->
                 IF (i - 1) \div r = (j - 1) \div c
                 THEN A.at[((i - 1) % r) + 1][((j - 1) % c) + 1]
                 ELSE 0]])

\* A @ B of two matrices; scipy raises ValueError on a dimension mismatch
MatMul(A, B) ==
    IF A.shape[2] # B.shape[1] THEN Raise("ValueError")
    ELSE Ok(Dense(A.shape[1], B.shape[2],
                  [i \in 1..A.shape[1] |-> [j \in 1..B.shape[2] |->
                      SumTo([t \in 1..A.shape[2] |-> A.at[i][t] * B.at[t][j]],
                            A.shape[2])]]))

\* A @ v of a matrix and a 1-D array
DenseMatVec(A, v) ==
    IF A.shape[2] # Len(v) THEN Raise("ValueError")
    ELSE Ok([i \in 1..A.shape[1] |->
               SumTo([t \in 1..A.shape[2] |-> A.at[i][t] * v[t]], A.shape[2])])

\* A @ B of a matrix and a 2-D array: the 2-D array A @ B
MatArr(A, B) ==
    IF A.shape[2] # B.shape[1] THEN Raise("ValueError")
    ELSE Ok(Array(<<A.shape[1], B.shape[2]>>,
                  [p \in 1..(A.shape[1] * B.shape[2]) |->
                      SumTo([t \in 1..A.shape[2] |->
                                A.at[((p - 1) \div B.shape[2]) + 1][t]
                                    * B.data[(t - 1) * B.shape[2] + ((p - 1) % B.shape[2]) + 1]],
                            A.shape[2])]))

----------------------------------------------------------------------------
(* The mesh and the mapping (collaborators of the term) *)

\* cell volumes of the regularization mesh
CellVolumes(nC) == [i \in 1..nC |-> IF i % 2 = 1 THEN 1 ELSE 3]

\* a row of nC cells along x, seen as a mesh of dimension dim
Mesh(nC, dim) == [nC |-> nC, dim |-> dim, vol |-> CellVolumes(nC)]

Meshes == {Mesh(n, d) : n \in 1..MaxNC, d \in 1..3}

\* maps.IdentityMap(): shape ("*", "*")
IdentityStar == [name |-> "IdentityMap", star |-> TRUE, nP |-> 0, P |-> <<>>]

\* maps.IdentityMap(nP=n): shape (n, n)
IdentityMap(n) == [name |-> "IdentityMap", star |-> FALSE, nP |-> n, P |-> <<>>]

\* a linear map with matrix P
LinearMap(P) == [name |-> "LinearMap", star |-> FALSE, nP |-> P.shape[1], P |-> P]

\* a map that mixes the components of each cell: block (K, K) is 2*I and
\* block (K, K+1) is diag(1, 2, ..., nC)
ShearMatrix(nC, d) ==
    Matrix(nC * d, nC * d, nC,
           [I \in 1..d |-> [J \in 1..d |-> [i \in 1..nC |->
               IF I = J THEN 2 ELSE IF J = I + 1 THEN i ELSE 0]]])

\* mapping * m
MapApply(map, m) ==
    IF map.name = "IdentityMap"
    THEN IF map.star \/ Len(m) = map.nP THEN Ok(m) ELSE Raise("ValueError")
    ELSE MatVec(map.P, m)

\* the number of components taken from the mesh whatever the mapping
n_comp_dim(map, mesh) == mesh.dim

\* BaseVectorRegularization.n_comp
n_comp(map, mesh) ==
    IF map.star THEN mesh.dim ELSE map.nP \div mesh.nC

----------------------------------------------------------------------------
(* CrossReferenceRegularization *)

\* a wrong sign: [R1, R0] in 2-D, [R1, R0, Z] as the third block row in 3-D
BuildX_sign(value, nC) ==
    IF value.shape[2] < 2 THEN Raise("IndexError")
    ELSE LET R0 == Diags(Column(value, 0))
             R1 == Diags(Column(value, 1))
         IN IF value.shape[2] = 2 THEN Ok(BMat(<< <<R1, R0>> >>))
            ELSE IF value.shape[2] = 3
            THEN LET Z  == Zeros(nC)
                     R2 == Diags(Column(value, 2))
                 IN Ok(BMat(<< <<Z, R2, Neg(R1)>>,
                               <<Neg(R2), Z, R0>>,
                               <<R1, R0, Z>> >>))
            ELSE Raise("UnboundLocalError")

\* the first two columns of the reference field taken for each other
BuildX_swap(value, nC) ==
    IF value.shape[2] < 2 THEN Raise("IndexError")
    ELSE LET R0 == Diags(Column(value, 1))
             R1 == Diags(Column(value, 0))
         IN IF value.shape[2] = 2 THEN Ok(BMat(<< <<R1, Neg(R0)>> >>))
            ELSE IF value.shape[2] = 3
            THEN LET Z  == Zeros(nC)
                     R2 == Diags(Column(value, 2))
                 IN Ok(BMat(<< <<Z, R2, Neg(R1)>>,
                               <<Neg(R2), Z, R0>>,
                               <<R1, Neg(R0), Z>> >>))
            ELSE Raise("UnboundLocalError")

\* ref_dir setter, the construction of X from the (nC, dim) reference field
BuildX(value, nC) ==
    IF value.shape[2] < 2 THEN Raise("IndexError")   \* value[:, 1]
    ELSE LET R0 == Diags(Column(value, 0))
             R1 == Diags(Column(value, 1))
         IN IF value.shape[2] = 2 THEN Ok(BMat(<< <<R1, Neg(R0)>> >>))
            ELSE IF value.shape[2] = 3
            THEN LET Z  == Zeros(nC)
                     R2 == Diags(Column(value, 2))
                 IN Ok(BMat(<< <<Z, R2, Neg(R1)>>,
                               <<Neg(R2), Z, R0>>,
                               <<R1, Neg(R0), Z>> >>))
            ELSE Raise("UnboundLocalError")

\* a check of the size only, followed by a reshape
NormalizeRefDir_size(value, mesh) ==
    IF Len(value.data) = mesh.nC * mesh.dim
    THEN Ok(Array(<<mesh.nC, mesh.dim>>, value.data))
    ELSE IF value.shape = <<mesh.dim>> THEN Ok(Tile(value, mesh.nC))
    ELSE Raise("ValueError")

\* the broadcast laid out cell by cell instead of row by row
NormalizeRefDir_repeat(value, mesh) ==
    IF value.shape # <<mesh.nC, mesh.dim>>
    THEN IF value.shape = <<mesh.dim>> THEN Ok(TileRepeat(value, mesh.nC))
         ELSE Raise("ValueError")
    ELSE Ok(value)

\* ref_dir setter, the shape check and the broadcast of a single vector
NormalizeRefDir(value, mesh) ==
    IF value.shape # <<mesh.nC, mesh.dim>>
    THEN IF value.shape = <<mesh.dim>> THEN Ok(Tile(value, mesh.nC))
         ELSE Raise("ValueError")
    ELSE Ok(value)

\* a setter that keeps the operator it finds and builds one only when there
\* is none
ref_dir_setter_cached(old_ref_dir, old_X, mesh, value) ==
    LET norm == NormalizeRefDir(value, mesh)
        X    == BuildX(norm.v, mesh.nC)
    IN IF norm.raised # "none"
       THEN [raised |-> norm.raised, _ref_dir |-> old_ref_dir, _X |-> old_X]
       ELSE IF X.raised # "none"
       THEN [raised |-> X.raised, _ref_dir |-> Some(norm.v), _X |-> old_X]
       ELSE [raised |-> "none", _ref_dir |-> Some(norm.v),
             _X |-> IF old_X.has THEN old_X ELSE Some(X.v)]

\* ref_dir setter: the fields it leaves behind and the error it raises
ref_dir_setter(old_ref_dir, old_X, mesh, value) ==
    LET norm == NormalizeRefDir(value, mesh)
        X    == BuildX(norm.v, mesh.nC)
    IN IF norm.raised # "none"
       THEN [raised |-> norm.raised, _ref_dir |-> old_ref_dir, _X |-> old_X]
       ELSE IF X.raised # "none"
       THEN [raised |-> X.raised, _ref_dir |-> Some(norm.v), _X |-> old_X]
       ELSE [raised |-> "none", _ref_dir |-> Some(norm.v), _X |-> Some(X.v)]

\* the kernel of the model shifted by a reference model of ones
f_m_shifted(X, map, m) ==
    LET mapped == MapApply(map, [i \in 1..Len(m) |-> m[i] - 1])
    IN IF mapped.raised # "none" THEN mapped ELSE MatVec(X, mapped.v)

\* CrossReferenceRegularization.f_m
f_m(X, map, m) ==
    LET mapped == MapApply(map, m)
    IN IF mapped.raised # "none" THEN mapped ELSE MatVec(X, mapped.v)

----------------------------------------------------------------------------
(* Weights and weighting matrices.  W = sp.diags(np.sqrt(weights)) is      *)
(* carried by its fourth power, the diagonal matrix of weights squared:    *)
(* the weights are non-negative, so W and W^4 determine each other.        *)

\* sp.diags(np.sqrt(weights)), given the squares of the weights
SqrtDiags(weightsSq) == Diags(weightsSq)

\* BaseVectorRegularization._weights_shapes
VectorWeightsShapes(map, mesh) ==
    << <<mesh.nC>>, <<n_comp(map, mesh) * mesh.nC>>, <<mesh.nC, n_comp(map, mesh)>> >>

\* one pass of the loop of CrossReferenceRegularization.W: weights *= ...
CrossRefWeightStep(weightsSq, value, mesh) ==
    IF value.shape = <<mesh.nC>>
    THEN [i \in 1..mesh.nC |-> weightsSq[i] * value.data[i] * value.data[i]]
    ELSE IF Len(value.data) = mesh.dim * mesh.nC
    THEN [i \in 1..mesh.nC |->
            weightsSq[i] * NormSqAxis1(ReshapeF(value, mesh.nC, mesh.dim))[i]]
    ELSE weightsSq

RECURSIVE CrossRefWeights(_, _, _)
\* the loop of CrossReferenceRegularization.W over self._weights.values()
CrossRefWeights(weightsSq, entries, mesh) ==
    IF entries = <<>> THEN weightsSq
    ELSE CrossRefWeights(CrossRefWeightStep(weightsSq, Head(entries).value, mesh),
                         Tail(entries), mesh)

\* the diagonal never replicated
CrossRefW_flat(entries, mesh) ==
    Ok(SqrtDiags(CrossRefWeights([i \in 1..mesh.nC |-> 1], entries, mesh)))

\* CrossReferenceRegularization.W, when it is built
CrossRefW(entries, mesh) ==
    LET weights == CrossRefWeights([i \in 1..mesh.nC |-> 1], entries, mesh)
    IN IF mesh.dim = 2 THEN Ok(SqrtDiags(weights))
       ELSE Ok(SqrtDiags(weights \o weights \o weights))

\* one pass of the loop of AmplitudeSmallness.W
SmallnessWeightStep(weightsSq, value, map, mesh) ==
    IF value.shape = <<mesh.nC>>
    THEN [i \in 1..mesh.nC |-> weightsSq[i] * value.data[i] * value.data[i]]
    ELSE IF value.shape = <<n_comp(map, mesh) * mesh.nC>>
    THEN [i \in 1..mesh.nC |->
            weightsSq[i] * NormSqAxis1(ReshapeF(value, mesh.nC, n_comp(map, mesh)))[i]]
    ELSE weightsSq

RECURSIVE SmallnessWeights(_, _, _, _)
\* the loop of AmplitudeSmallness.W over self._weights.values()
SmallnessWeights(weightsSq, entries, map, mesh) ==
    IF entries = <<>> THEN weightsSq
    ELSE SmallnessWeights(SmallnessWeightStep(weightsSq, Head(entries).value, map, mesh),
                          Tail(entries), map, mesh)

\* AmplitudeSmallness.W, when it is built
SmallnessW(entries, map, mesh) ==
    Ok(SqrtDiags(SmallnessWeights([i \in 1..mesh.nC |-> 1], entries, map, mesh)))

----------------------------------------------------------------------------
(* AmplitudeSmoothnessFirstOrder: faces and the cell-to-face average.      *)
(* Sums of weights are taken here, so the norms themselves are needed: a   *)
(* norm is the exact integer root of its square, and the average of two    *)
(* cells is the exact half of their sum, on the weights that are drawn.    *)

\* the number of faces of the row of cells normal to the orientation
NFaces(mesh, o) == IF o = "x" THEN mesh.nC + 1 ELSE 2 * mesh.nC

\* regularization_mesh.aveCC2F{orientation} times two: an inner x-face halves
\* its two cells, a boundary face takes its one cell
AveCC2FTwice(mesh, o) ==
    [shape |-> <<NFaces(mesh, o), mesh.nC>>,
     at |-> [f \in 1..NFaces(mesh, o) |-> [c \in 1..mesh.nC |->
               IF o = "x"
               THEN IF f = 1 THEN (IF c = 1 THEN 2 ELSE 0)
                    ELSE IF f = mesh.nC + 1 THEN (IF c = mesh.nC THEN 2 ELSE 0)
                    ELSE IF c = f - 1 \/ c = f THEN 1 ELSE 0
               ELSE IF c = ((f - 1) % mesh.nC) + 1 THEN 2 ELSE 0]]]

\* average_cell_2_face * values for a 1-D values
AveTimes(aveTwice, values) ==
    [f \in 1..aveTwice.shape[1] |->
        SumTo([c \in 1..aveTwice.shape[2] |-> aveTwice.at[f][c] * values[c]],
              aveTwice.shape[2]) \div 2]

\* the exact root of a square
Root(n) == CHOOSE r \in 0..n : r * r = n

\* np.linalg.norm(a, axis=1)
NormAxis1(a) == [i \in 1..a.shape[1] |-> Root(NormSqAxis1(a)[i])]

\* AmplitudeSmoothnessFirstOrder._weights_shapes
SmoothnessWeightsShapes(map, mesh, o) ==
    << <<NFaces(mesh, o)>>,
       <<n_comp(map, mesh) * NFaces(mesh, o)>>,
       <<NFaces(mesh, o), n_comp(map, mesh)>>,
       <<mesh.nC>>,
       <<n_comp(map, mesh) * mesh.nC>>,
       <<mesh.nC, n_comp(map, mesh)>> >>

\* one weight of the loop of AmplitudeSmoothnessFirstOrder.W, up to weights *= values:
\* the values as a 1-D array of faces, or the error of a 2-D product, which
\* either cannot be multiplied into weights in place or makes sp.diags fail
SmoothnessValues(value, map, mesh, o) ==
    LET nC  == mesh.nC
        nF  == NFaces(mesh, o)
        nc  == n_comp(map, mesh)
        ave == AveCC2FTwice(mesh, o)
    IN IF value.shape[1] = nC
       THEN IF Len(value.shape) = 1 THEN Ok(AveTimes(ave, value.data))
            ELSE Raise("ValueError")
       ELSE IF value.shape # <<nF>>
       THEN IF Len(value.data) % nc # 0 THEN Raise("ValueError")
            ELSE LET reduced == NormAxis1(ReshapeF(value, Len(value.data) \div nc, nc))
                 IN IF Len(reduced) = nC THEN Ok(AveTimes(ave, reduced))
                    ELSE Ok(reduced)
       ELSE Ok(value.data)

RECURSIVE SmoothnessWeights(_, _, _, _, _)
\* the loop of AmplitudeSmoothnessFirstOrder.W; weights starts as the scalar 1.0
SmoothnessWeights(weights, entries, map, mesh, o) ==
    IF entries = <<>> THEN Ok(weights)
    ELSE LET values == SmoothnessValues(Head(entries).value, map, mesh, o)
         IN IF values.raised # "none" THEN values
            ELSE IF Len(weights) # 1 /\ Len(weights) # Len(values.v)
            THEN Raise("ValueError")
            ELSE SmoothnessWeights(
                     [f \in 1..Len(values.v) |->
                         (IF Len(weights) = 1 THEN weights[1] ELSE weights[f]) * values.v[f]],
                     Tail(entries), map, mesh, o)

\* AmplitudeSmoothnessFirstOrder.W, when it is built
SmoothnessW(entries, map, mesh, o) ==
    LET weights == SmoothnessWeights(<<1>>, entries, map, mesh, o)
    IN IF weights.raised # "none" THEN weights
       ELSE Ok(SqrtDiags([f \in 1..Len(weights.v) |-> weights.v[f] * weights.v[f]]))

----------------------------------------------------------------------------
(* BaseAmplitude *)

\* BaseRegularization._delta_m: m minus the reference model, if there is one
delta_m(refmodel, m) ==
    IF ~refmodel.has THEN Ok(m)
    ELSE IF refmodel.v.shape = <<>>
    THEN Ok([i \in 1..Len(m) |-> m[i] - refmodel.v.data[1]])
    ELSE IF Len(refmodel.v.data) # Len(m) THEN Raise("ValueError")
    ELSE Ok([i \in 1..Len(m) |-> m[i] - refmodel.v.data[i]])

\* BaseAmplitude.amplitude, squared entry by entry
amplitude(map, refmodel, mesh, m) ==
    LET dm     == delta_m(refmodel, m)
        mapped == IF dm.raised # "none" THEN dm ELSE MapApply(map, dm.v)
    IN IF mapped.raised # "none" THEN mapped
       ELSE IF Len(mapped.v) # mesh.nC * n_comp(map, mesh) THEN Raise("ValueError")
       ELSE Ok(NormSqAxis1(ReshapeF(Arr1(mapped.v), mesh.nC, n_comp(map, mesh))))

\* mapping.deriv(m): the identity for an identity map, P for a linear map
MapDeriv(map, m) ==
    IF map.name = "IdentityMap"
    THEN Identity(IF map.star THEN Len(m) ELSE map.nP)
    ELSE ToDense(map.P)

\* the cell_gradient of the orientation: the difference of the two cells of
\* an inner x-face; a boundary face has a zero row
cell_gradient(mesh, o) ==
    Dense(NFaces(mesh, o), mesh.nC,
          [f \in 1..NFaces(mesh, o) |-> [c \in 1..mesh.nC |->
              IF o = "x" /\ f > 1 /\ f <= mesh.nC
              THEN IF c = f THEN 1 ELSE IF c = f - 1 THEN -1 ELSE 0
              ELSE 0]])

\* self.W.T @ self.W, of the W carried by its fourth power
WtW(W) ==
    Dense(W.shape[1], W.shape[2],
          [i \in 1..W.shape[1] |-> [j \in 1..W.shape[2] |->
              IF i = j THEN Root(Entry(W, i, i)) ELSE 0]])

\* CrossReferenceRegularization.f_m_deriv
CrossRef_f_m_deriv(X, map, m) == MatMul(ToDense(X), MapDeriv(map, m))

\* Smallness.f_m_deriv, which AmplitudeSmallness inherits
Smallness_f_m_deriv(map, refmodel, m) ==
    LET dm == delta_m(refmodel, m)
    IN IF dm.raised # "none" THEN dm ELSE Ok(MapDeriv(map, dm.v))

\* AmplitudeSmoothnessFirstOrder.f_m_deriv
Smoothness_f_m_deriv(map, refmodel, mesh, o, m) ==
    LET dm == delta_m(refmodel, m)
    IN IF dm.raised # "none" THEN dm
       ELSE MatMul(BlockDiag(cell_gradient(mesh, o), n_comp(map, mesh)),
                   MapDeriv(map, dm.v))

\* f_m_deriv of an amplitude term
Amplitude_f_m_deriv(c, map, refmodel, mesh, o, m) ==
    IF c = "AmplitudeSmallness" THEN Smallness_f_m_deriv(map, refmodel, m)
    ELSE Smoothness_f_m_deriv(map, refmodel, mesh, o, m)

\* AmplitudeSmallness.f_m: the amplitude, squared entry by entry
Smallness_f_m(map, refmodel, mesh, m) == amplitude(map, refmodel, mesh, m)

\* every entry is the square of an integer
HasExactRoots(sq) == \A i \in 1..Len(sq) : \E r \in 0..sq[i] : r * r = sq[i]

\* AmplitudeSmoothnessFirstOrder.f_m, on a model whose amplitudes are integers
Smoothness_f_m(map, refmodel, mesh, o, m) ==
    LET a == amplitude(map, refmodel, mesh, m)
    IN IF a.raised # "none" THEN a
       ELSE DenseMatVec(cell_gradient(mesh, o), [i \in 1..Len(a.v) |-> Root(a.v[i])])

\* the product flattened in C order
WeightColumns_orderC(W, y, nc) ==
    IF Len(y) % nc # 0 THEN Raise("ValueError")
    ELSE LET prod == MatArr(WtW(W), ReshapeF(Arr1(y), Len(y) \div nc, nc))
         IN IF prod.raised # "none" THEN prod ELSE Ok(prod.v.data)

\* (W.T @ W @ y.reshape((-1, n_comp), order="F")).flatten(order="F")
WeightColumns(W, y, nc) ==
    IF Len(y) % nc # 0 THEN Raise("ValueError")
    ELSE LET prod == MatArr(WtW(W), ReshapeF(Arr1(y), Len(y) \div nc, nc))
         IN IF prod.raised # "none" THEN prod ELSE Ok(RavelF(prod.v))

\* the gradient taken at m instead of at m minus the reference model
deriv_unshifted(F, W, nc, refmodel, m) ==
    LET y  == DenseMatVec(F, m)
        z  == WeightColumns(W, y.v, nc)
    IN IF y.raised # "none" THEN y
       ELSE IF z.raised # "none" THEN z
       ELSE DenseMatVec(Transpose(F), z.v)

\* BaseAmplitude.deriv, given f_m_deriv(m) and W
deriv(F, W, nc, refmodel, m) ==
    LET dm == delta_m(refmodel, m)
        y  == DenseMatVec(F, dm.v)
        z  == WeightColumns(W, y.v, nc)
    IN IF dm.raised # "none" THEN dm
       ELSE IF y.raised # "none" THEN y
       ELSE IF z.raised # "none" THEN z
       ELSE DenseMatVec(Transpose(F), z.v)

\* BaseAmplitude.deriv2, given f_m_deriv(m) and W; v is None or Some(vector)
deriv2(F, W, nc, v) ==
    IF ~v.has
    THEN LET inner == MatMul(BlockDiag(WtW(W), nc), F)
         IN IF inner.raised # "none" THEN inner
            ELSE MatMul(Transpose(F), inner.v)
    ELSE LET y == DenseMatVec(F, v.v)
             z == WeightColumns(W, y.v, nc)
         IN IF y.raised # "none" THEN y
            ELSE IF z.raised # "none" THEN z
            ELSE DenseMatVec(Transpose(F), z.v)

----------------------------------------------------------------------------
(* Inputs *)

Prefix(s, d) == [k \in 1..d |-> s[k]]

Unit(d, k) == [j \in 1..d |-> IF j = k THEN 1 ELSE 0]

\* the directions a cell of a reference field is drawn from
RefRows(d) == {Prefix(<<2, -1, 3>>, d), Prefix(<<0, 1, -2>>, d)}

\* the vectors a cell of a model is drawn from
ModelRows(d) == {Prefix(<<-1, 3, 2>>, d), Prefix(<<1, 0, 1>>, d), Prefix(<<0, 2, 0>>, d)}

Scalars == {-2, 0, 1}

\* the (n, d) array whose row i is rows[i]
FromRows(rows, n, d) ==
    Array(<<n, d>>, [p \in 1..(n * d) |-> rows[((p - 1) \div d) + 1][((p - 1) % d) + 1]])

\* the flat vector of d stacked blocks of length n whose cell i holds rows[i]
Stacked(rows, n, d) ==
    [p \in 1..(n * d) |-> rows[((p - 1) % n) + 1][((p - 1) \div n) + 1]]

\* reference fields of the accepted shapes and of some others
RefDirInputs(mesh) ==
    {FromRows(rows, mesh.nC, mesh.dim) : rows \in [1..mesh.nC -> RefRows(mesh.dim)]}
    \cup {Arr1(v) : v \in RefRows(mesh.dim)}
    \cup {Array(<<mesh.dim, mesh.nC>>, [p \in 1..(mesh.nC * mesh.dim) |-> 1]),
          Array(<<mesh.nC * mesh.dim>>, [p \in 1..(mesh.nC * mesh.dim) |-> 1]),
          Array(<<mesh.nC>>, [p \in 1..mesh.nC |-> 1]),
          Array(<<1, mesh.dim>>, [p \in 1..mesh.dim |-> 1]),
          Array(<<mesh.nC, mesh.dim, 1>>, [p \in 1..(mesh.nC * mesh.dim) |-> 1]),
          Array(<<>>, <<1>>)}

\* the cells of a model, each a multiple of the cell of the reference field
ParallelModels(ref, mesh) ==
    {Stacked([i \in 1..mesh.nC |-> [k \in 1..mesh.dim |-> a[i] * Row(ref, i)[k]]],
             mesh.nC, mesh.dim) : a \in [1..mesh.nC -> Scalars]}

\* models of the length the kernel takes
Models(mesh) ==
    {Stacked(rows, mesh.nC, mesh.dim) : rows \in [1..mesh.nC -> ModelRows(mesh.dim)]}

\* a model of one value per cell: too short for a kernel of dim components
ShortModel(mesh) == [i \in 1..mesh.nC |-> 1]

\* the models the kernel is evaluated at
ModelInputs(ref, mesh) ==
    Models(mesh) \cup ParallelModels(ref, mesh) \cup {ShortModel(mesh)}

\* the models the derivative of the kernel is evaluated at: the derivative
\* takes from the model its length only
DerivativeModelInputs(mesh) ==
    {Stacked([i \in 1..mesh.nC |-> Prefix(<<-1, 3, 2>>, mesh.dim)], mesh.nC, mesh.dim),
     ShortModel(mesh)}

\* the other number of components a mapping may put out
OtherComp(dim) == IF dim = 3 THEN 2 ELSE dim + 1

Mappings(mesh) ==
    {IdentityStar,
     LinearMap(ShearMatrix(mesh.nC, mesh.dim)),
     IdentityMap(OtherComp(mesh.dim) * mesh.nC)}

Call(op, arg, raised, ret) == [op |-> op, arg |-> arg, raised |-> raised, ret |-> ret]

\* no VectorAmplitude: no attribute set, no term held, no term constructed
NoComposite == [_regularization_mesh |-> None, objfcts |-> <<>>, terms |-> <<>>]

VolumeWeights(mesh) == << [key |-> "volume", value |-> Arr1(mesh.vol)] >>

----------------------------------------------------------------------------
(* CrossReferenceRegularization: the reference field and the kernel *)

\* after super().__init__ of CrossReferenceRegularization.__init__
Init ==
    /\ composite = NoComposite
    /\ cls = "CrossReferenceRegularization"
    /\ regularization_mesh \in Meshes
    /\ orientation = "none"
    /\ mapping \in Mappings(regularization_mesh)
    /\ reference_model = None
    /\ stage = "super"
    /\ _ref_dir = None
    /\ _X = None
    /\ _weights = VolumeWeights(regularization_mesh)
    /\ _W = None
    /\ call = Call("super().__init__", <<>>, "none", <<>>)

\* CrossReferenceRegularization.__init__: self.ref_dir = ref_dir; self.reference_model = 0.0
Construct(value) ==
    /\ cls = "CrossReferenceRegularization"
    /\ stage = "super"
    /\ LET r == ref_dir_setter(_ref_dir, _X, regularization_mesh, value)
       IN /\ _ref_dir' = r._ref_dir
          /\ _X' = r._X
          /\ stage' = IF r.raised = "none" THEN "ready" ELSE "raised"
          /\ reference_model' = IF r.raised = "none" THEN Some(Array(<<>>, <<0>>))
                                ELSE reference_model
          /\ call' = Call("__init__", value, r.raised, <<>>)
    /\ UNCHANGED << composite, cls, regularization_mesh, orientation, mapping, _weights, _W >>

\* reg.ref_dir = value
SetRefDir(value) ==
    /\ cls = "CrossReferenceRegularization"
    /\ stage = "ready"
    /\ LET r == ref_dir_setter(_ref_dir, _X, regularization_mesh, value)
       IN /\ _ref_dir' = r._ref_dir
          /\ _X' = r._X
          /\ call' = Call("ref_dir", value, r.raised, <<>>)
    /\ UNCHANGED << composite, cls, regularization_mesh, orientation, mapping, reference_model,
                    stage, _weights, _W >>

\* reg.f_m(m)
Eval_f_m(m) ==
    /\ cls = "CrossReferenceRegularization"
    /\ stage = "ready"
    /\ LET r == f_m(_X.v, mapping, m)
       IN call' = Call("f_m", m, r.raised, r.v)
    /\ UNCHANGED << composite, cls, regularization_mesh, orientation, mapping, reference_model,
                    stage, _ref_dir, _X, _weights, _W >>

\* reg.f_m_deriv(m)
Eval_f_m_deriv(m) ==
    /\ cls = "CrossReferenceRegularization"
    /\ stage = "ready"
    /\ LET r == CrossRef_f_m_deriv(_X.v, mapping, m)
       IN call' = Call("f_m_deriv", m, r.raised, r.v)
    /\ UNCHANGED << composite, cls, regularization_mesh, orientation, mapping, reference_model,
                    stage, _ref_dir, _X, _weights, _W >>

Next ==
    \/ \E value \in RefDirInputs(regularization_mesh) : Construct(value)
    \/ \E value \in RefDirInputs(regularization_mesh) : SetRefDir(value)
    \/ /\ stage = "ready"
       /\ \E m \in ModelInputs(_ref_dir.v, regularization_mesh) : Eval_f_m(m)
    \/ /\ stage = "ready"
       /\ \E m \in DerivativeModelInputs(regularization_mesh) : Eval_f_m_deriv(m)

Spec == Init /\ [][Next]_vars

----------------------------------------------------------------------------
(* Properties of the reference field and the kernel *)

\* entry (i, k) of the stored reference field, k = 1 for x, 2 for y, 3 for z
Ref(i, k) == Row(_ref_dir.v, i)[k]

\* component k of cell i of a stacked model
Comp(m, i, k) == m[(k - 1) * regularization_mesh.nC + i]

KernelCalled == call.op = "f_m" /\ call.raised = "none"

Assigned == call.op \in {"__init__", "ref_dir"}

ParallelGivesZero ==
    (/\ call.op = "f_m"
     /\ mapping.star
     /\ call.arg \in ParallelModels(_ref_dir.v, regularization_mesh))
    => /\ call.raised = "none"
       /\ \A p \in 1..Len(call.ret) : call.ret[p] = 0

\* the kernel was evaluated in 3-D at a model whose cells are non-zero
\* multiples, not all the same, of a reference field that varies
ParallelGivesZeroSeen ==
    /\ KernelCalled
    /\ mapping.star
    /\ regularization_mesh.dim = 3
    /\ regularization_mesh.nC > 1
    /\ Row(_ref_dir.v, 1) # Row(_ref_dir.v, 2)
    /\ \E a \in [1..regularization_mesh.nC -> Scalars \ {0}] :
          /\ a[1] # a[2]
          /\ call.arg = Stacked([i \in 1..regularization_mesh.nC |->
                                    [k \in 1..3 |-> a[i] * Ref(i, k)]],
                                regularization_mesh.nC, 3)

\* the scalars of the linear combinations
Coefficients == {-1, 2}

\* C3: for every reference field, models m1, m2 and scalars a, b, the kernel
\* with a linear mapping satisfies X.(a*m1 + b*m2) = a*X.m1 + b*X.m2.
KernelIsLinear ==
    KernelCalled =>
        \A m2 \in Models(regularization_mesh) :
            LET m1 == call.arg
                r2 == f_m(_X.v, mapping, m2)
            IN /\ r2.raised = "none"
               /\ \A a \in Coefficients, b \in Coefficients :
                     f_m(_X.v, mapping, [p \in 1..Len(m1) |-> a * m1[p] + b * m2[p]])
                        = Ok([p \in 1..Len(call.ret) |-> a * call.ret[p] + b * r2.v[p]])

\* the kernel was evaluated through a mapping that is not the identity and
\* returned a non-zero vector
KernelIsLinearSeen ==
    /\ KernelCalled
    /\ mapping.name = "LinearMap"
    /\ regularization_mesh.nC > 1
    /\ \E p \in 1..Len(call.ret) : call.ret[p] # 0

StoredFieldIsPerCell ==
    /\ stage = "ready" =>
          /\ _ref_dir.has
          /\ _ref_dir.v.shape = <<regularization_mesh.nC, regularization_mesh.dim>>
    /\ (Assigned /\ call.raised = "none" /\ call.arg.shape = <<regularization_mesh.dim>>)
       => /\ \A i \in 1..regularization_mesh.nC : Row(_ref_dir.v, i) = call.arg.data
          /\ _X = Some(BuildX(FromRows([i \in 1..regularization_mesh.nC |-> call.arg.data],
                                       regularization_mesh.nC, regularization_mesh.dim),
                              regularization_mesh.nC).v)

\* a single vector with distinct entries was assigned on a mesh of several
\* cells, replacing a field that varied from cell to cell
StoredFieldIsPerCellSeen ==
    /\ call.op = "ref_dir"
    /\ call.raised = "none"
    /\ call.arg.shape = <<regularization_mesh.dim>>
    /\ regularization_mesh.nC > 1
    /\ regularization_mesh.dim = 3
    /\ call.arg.data[1] # call.arg.data[2]

\* C27: on a mesh of two or three dimensions ref_dir is accepted as a single
\* vector of shape (dim,) and as a per-cell array of shape (dim, n_active),
\* as the docstring of the class states; in both cases the assignment raises
\* nothing and cell i of the stored field holds the direction given for cell
\* i: the vector itself, or column i of the array.
DocumentedRefDirShapesAccepted ==
    LET nC  == regularization_mesh.nC
        dim == regularization_mesh.dim
    IN (Assigned /\ dim > 1)
       => /\ call.arg.shape = <<dim>> =>
                /\ call.raised = "none"
                /\ \A i \in 1..nC : Row(_ref_dir.v, i) = call.arg.data
          /\ call.arg.shape = <<dim, nC>> =>
                /\ call.raised = "none"
                /\ \A i \in 1..nC, k \in 1..dim :
                      Ref(i, k) = call.arg.data[(k - 1) * nC + i]

\* the operator of the reference field as it is stored
CurrentX == BuildX(_ref_dir.v, regularization_mesh.nC)

\* C20: after any sequence of successful assignments of ref_dir, the stored
\* field is the one assigned last, the stored operator is the operator of
\* the stored field, and f_m(m) and f_m_deriv(m) return what the operator of
\* the stored field gives.
XIsNeverStale ==
    /\ stage = "ready" =>
          /\ _ref_dir.has
          /\ _X.has
          /\ CurrentX.raised = "none"
          /\ _X.v = CurrentX.v
    /\ (Assigned /\ call.raised = "none")
       => _ref_dir.v = NormalizeRefDir(call.arg, regularization_mesh).v
    /\ call.op = "f_m" =>
          LET r == f_m(CurrentX.v, mapping, call.arg)
          IN call.raised = r.raised /\ call.ret = r.v
    /\ call.op = "f_m_deriv" =>
          LET r == CrossRef_f_m_deriv(CurrentX.v, mapping, call.arg)
          IN call.raised = r.raised /\ call.ret = r.v

\* f_m_deriv returned a matrix that is not zero on a mesh of several cells
\* whose reference field varies from cell to cell
XIsNeverStaleSeen ==
    /\ call.op = "f_m_deriv"
    /\ call.raised = "none"
    /\ regularization_mesh.nC > 1
    /\ Row(_ref_dir.v, 1) # Row(_ref_dir.v, 2)
    /\ \E i \in 1..call.ret.shape[1], j \in 1..call.ret.shape[2] : call.ret.at[i][j] # 0

\* C23 as stated: on a constructed term X is a square matrix of shape
\* (n_comp*nC, n_comp*nC) and X transposed is -X, in 2-D and in 3-D.
XIsSquareSkewSymmetric ==
    stage = "ready" =>
        LET X == _X.v
            n == n_comp(mapping, regularization_mesh) * regularization_mesh.nC
        IN IF X.shape # <<n, n>> THEN FALSE
           ELSE \A i \in 1..n, j \in 1..n : Entry(X, j, i) = -Entry(X, i, j)

\* C23 as amended: on a 3-D mesh X is a square matrix of shape (3*nC, 3*nC)
\* and X transposed is -X; on a 2-D mesh X is the block row
\* [diag(ref_y), -diag(ref_x)] of shape (nC, 2*nC), which is not square.
XIsSkewSymmetricIn3D ==
    stage = "ready" =>
        LET X  == _X.v
            nC == regularization_mesh.nC
        IN /\ regularization_mesh.dim = 3 =>
                 /\ X.shape = <<3 * nC, 3 * nC>>
                 /\ \A i \in 1..(3 * nC), j \in 1..(3 * nC) :
                       Entry(X, j, i) = -Entry(X, i, j)
           /\ regularization_mesh.dim = 2 =>
                 /\ X.shape = <<nC, 2 * nC>>
                 /\ \A i \in 1..nC, j \in 1..(2 * nC) :
                       Entry(X, i, j) = (IF j = i THEN Ref(i, 2)
                                         ELSE IF j = nC + i THEN -Ref(i, 1)
                                         ELSE 0)

\* a term on a 2-D mesh of several cells holds the operator of a field that
\* varies from cell to cell and has no zero entry in its first cell
XIsSkewSymmetricIn3DSeen ==
    /\ stage = "ready"
    /\ regularization_mesh.dim = 2
    /\ regularization_mesh.nC > 1
    /\ Row(_ref_dir.v, 1) # Row(_ref_dir.v, 2)
    /\ Ref(1, 1) # 0
    /\ Ref(1, 2) # 0
    /\ _X.v.shape = <<regularization_mesh.nC, 2 * regularization_mesh.nC>>

\* C28: on a mesh of any dimension an assignment of ref_dir that raises, in
\* the constructor or later, leaves the stored reference field and X as they
\* were; and on a constructed term X is always the operator of the stored
\* field.
FailedAssignmentChangesNothing ==
    /\ [](stage = "ready" => (_ref_dir.has /\ _X = Some(CurrentX.v)))
    /\ [][(call'.op \in {"__init__", "ref_dir"} /\ call'.raised # "none")
             => (_ref_dir' = _ref_dir /\ _X' = _X)]_vars

----------------------------------------------------------------------------
(* Weights: set_weights and the W property of the three classes *)

Classes ==
    {"CrossReferenceRegularization", "AmplitudeSmallness", "AmplitudeSmoothnessFirstOrder"}

Orientations(dim) == {"x"} \cup (IF dim > 1 THEN {"y"} ELSE {}) \cup (IF dim > 2 THEN {"z"} ELSE {})

Ones(n) == [p \in 1..n |-> 1]

Ramp(n) == [p \in 1..n |-> (p % 3) + 1]

\* odd weights, one per cell
OddRamp(n) == [p \in 1..n |-> IF p % 2 = 1 THEN 3 ELSE 1]

\* component weights of one cell or face whose norm is an odd integer
IntegerNormRow(nc, i) ==
    IF nc = 1 THEN (IF i % 2 = 1 THEN <<3>> ELSE <<1>>)
    ELSE IF nc = 2 THEN (IF i % 2 = 1 THEN <<3, 4>> ELSE <<0, 1>>)
    ELSE (IF i % 2 = 1 THEN <<1, 2, 2>> ELSE <<0, 0, 1>>)

\* weights handed to set_weights of a cross-reference or smallness term
VectorWeightInputs(map, mesh) ==
    LET nC == mesh.nC
        nc == n_comp(map, mesh)
    IN {Arr1(Ones(nC)), Arr1(Ramp(nC)),
        Arr1(Ones(nc * nC)), Arr1(Ramp(nc * nC)),
        Array(<<nC, nc>>, Ones(nc * nC)), Array(<<nC, nc>>, Ramp(nc * nC)),
        Arr1(Ones(nc * nC + 1)), Array(<<nc, nC>>, Ones(nc * nC))}

\* weights handed to set_weights of a smoothness term
SmoothnessWeightInputs(map, mesh, o) ==
    LET nC == mesh.nC
        nF == NFaces(mesh, o)
        nc == n_comp(map, mesh)
    IN {Arr1(Ones(nF)), Arr1(Ramp(nF)),
        Arr1(Ones(nC)), Arr1(OddRamp(nC)),
        Arr1(Stacked([i \in 1..nF |-> IntegerNormRow(nc, i)], nF, nc)),
        FromRows([i \in 1..nF |-> IntegerNormRow(nc, i)], nF, nc),
        Arr1(Stacked([i \in 1..nC |-> IntegerNormRow(nc, i)], nC, nc)),
        FromRows([i \in 1..nC |-> IntegerNormRow(nc, i)], nC, nc),
        Arr1(Ones(nc * nF + 1)), Array(<<nF, nc, 1>>, Ones(nc * nF))}

WeightInputs(c, map, mesh, o) ==
    IF c = "AmplitudeSmoothnessFirstOrder" THEN SmoothnessWeightInputs(map, mesh, o)
    ELSE VectorWeightInputs(map, mesh)

UserKeys == {"a", "b"}

\* the _weights_shapes of the class
WeightsShapes(c, map, mesh, o) ==
    IF c = "AmplitudeSmoothnessFirstOrder" THEN SmoothnessWeightsShapes(map, mesh, o)
    ELSE VectorWeightsShapes(map, mesh)

InSeq(x, s) == \E p \in 1..Len(s) : s[p] = x

\* self._weights[key] = value on a dict that keeps the order of insertion
Put(entries, key, value) ==
    IF \E p \in 1..Len(entries) : entries[p].key = key
    THEN [p \in 1..Len(entries) |->
            IF entries[p].key = key THEN [key |-> key, value |-> value] ELSE entries[p]]
    ELSE Append(entries, [key |-> key, value |-> value])

\* the W property of the class, when it has no cached matrix
BuildW(c, entries, map, mesh, o) ==
    IF c = "CrossReferenceRegularization" THEN CrossRefW(entries, mesh)
    ELSE IF c = "AmplitudeSmallness" THEN SmallnessW(entries, map, mesh)
    ELSE SmoothnessW(entries, map, mesh, o)

\* a getter that builds the matrix on every read and never stores it
W_property_uncached(cached, c, entries, map, mesh, o) ==
    LET r == BuildW(c, entries, map, mesh, o)
    IN [raised |-> r.raised, _W |-> cached, ret |-> r.v]

\* the W property of the three classes: the matrix is built and stored when
\* there is none, and the stored matrix is returned
W_property(cached, c, entries, map, mesh, o) ==
    IF cached.has THEN [raised |-> "none", _W |-> cached, ret |-> cached.v]
    ELSE LET r == BuildW(c, entries, map, mesh, o)
         IN [raised |-> r.raised,
             _W |-> IF r.raised = "none" THEN Some(r.v) ELSE cached,
             ret |-> r.v]

\* a constructed term of one of the three classes; the cross-reference term
\* was constructed on a mesh of two or three dimensions with a single vector
InitW ==
    /\ composite = NoComposite
    /\ cls \in Classes
    /\ regularization_mesh \in Meshes
    /\ cls = "CrossReferenceRegularization" => regularization_mesh.dim > 1
    /\ orientation \in (IF cls = "AmplitudeSmoothnessFirstOrder"
                        THEN Orientations(regularization_mesh.dim) ELSE {"none"})
    /\ mapping \in Mappings(regularization_mesh)
    /\ reference_model = (IF cls = "CrossReferenceRegularization"
                          THEN Some(Array(<<>>, <<0>>)) ELSE None)
    /\ stage = "ready"
    /\ LET r == ref_dir_setter(None, None, regularization_mesh,
                               Arr1(Prefix(<<2, -1, 3>>, regularization_mesh.dim)))
       IN /\ _ref_dir = (IF cls = "CrossReferenceRegularization" THEN r._ref_dir ELSE None)
          /\ _X = (IF cls = "CrossReferenceRegularization" THEN r._X ELSE None)
    /\ _weights = VolumeWeights(regularization_mesh)
    /\ _W = None
    /\ call = Call("__init__", <<>>, "none", <<>>)

\* reg.set_weights(key=value): the shape is validated against _weights_shapes,
\* the weight is stored and the cached W is dropped
SetWeights(key, value) ==
    /\ stage = "ready"
    /\ IF InSeq(value.shape, WeightsShapes(cls, mapping, regularization_mesh, orientation))
       THEN /\ _weights' = Put(_weights, key, value)
            /\ _W' = None
            /\ call' = Call("set_weights", <<key, value>>, "none", <<>>)
       ELSE /\ UNCHANGED << _weights, _W >>
            /\ call' = Call("set_weights", <<key, value>>, "ValueError", <<>>)
    /\ UNCHANGED << composite, cls, regularization_mesh, orientation, mapping, reference_model,
                    stage, _ref_dir, _X >>

\* reg.W
ReadW ==
    /\ stage = "ready"
    /\ LET r == W_property(_W, cls, _weights, mapping, regularization_mesh, orientation)
       IN /\ _W' = r._W
          /\ call' = Call("W", <<>>, r.raised, r.ret)
    /\ UNCHANGED << composite, cls, regularization_mesh, orientation, mapping, reference_model,
                    stage, _ref_dir, _X, _weights >>

NextW ==
    \/ \E key \in UserKeys :
          \E value \in WeightInputs(cls, mapping, regularization_mesh, orientation) :
              SetWeights(key, value)
    \/ ReadW

SpecW == InitW /\ [][NextW]_vars

----------------------------------------------------------------------------
(* Properties of the weighting matrices *)

WBuilt == call.op = "W" /\ call.raised = "none"

\* the matrix is square and zero off its diagonal
IsSquareDiagonal(M) ==
    /\ M.shape[1] = M.shape[2]
    /\ \A i \in 1..M.shape[1], j \in 1..M.shape[2] : i # j => Entry(M, i, j) = 0

\* the model of ones of the size the mapping takes
OnesModel == Ones(regularization_mesh.nC * regularization_mesh.dim)

CellContributionSq(value, i, nC, nc) ==
    IF value.shape = <<nC>> THEN value.data[i] * value.data[i]
    ELSE IF value.shape = <<nc * nC>>
    THEN SumTo([k \in 1..nc |-> value.data[(k - 1) * nC + i] * value.data[(k - 1) * nC + i]], nc)
    ELSE SumTo([k \in 1..nc |-> Row(value, i)[k] * Row(value, i)[k]], nc)

RECURSIVE CellProductSq(_, _, _, _)
CellProductSq(entries, i, nC, nc) ==
    IF entries = <<>> THEN 1
    ELSE CellContributionSq(Head(entries).value, i, nC, nc)
            * CellProductSq(Tail(entries), i, nC, nc)

\* C8: for a cross-reference and an amplitude smallness term every registered
\* weight of an accepted shape multiplies into the diagonal of W, a (nC,)
\* weight as it is and a per-component weight through its norm across the
\* components of each cell; none is left out, whatever n_comp is.
AcceptedWeightsContribute ==
    (cls \in {"CrossReferenceRegularization", "AmplitudeSmallness"} /\ WBuilt)
    => \A i \in 1..regularization_mesh.nC :
          Entry(call.ret, i, i) =
              CellProductSq(_weights, i, regularization_mesh.nC,
                            n_comp(mapping, regularization_mesh))

AllOnes(value) == \A p \in 1..Len(value.data) : value.data[p] = 1

\* C9: with two all-ones weights of two different accepted shapes registered,
\* W is the matrix built from the default volume weights alone.
UnitWeightsLeaveW ==
    (/\ WBuilt
     /\ Len(_weights) = 3
     /\ AllOnes(_weights[2].value)
     /\ AllOnes(_weights[3].value)
     /\ _weights[2].value.shape # _weights[3].value.shape)
    => call.ret = BuildW(cls, VolumeWeights(regularization_mesh), mapping,
                         regularization_mesh, orientation).v

\* what a weight of an accepted shape gives the faces: a per-component weight
\* reduced by its norm across the components, a cell-based one then averaged
\* to the faces
FaceContribution(value, map, mesh, o) ==
    LET nC  == mesh.nC
        nF  == NFaces(mesh, o)
        nc  == n_comp(map, mesh)
        ave == AveCC2FTwice(mesh, o)
    IN IF value.shape = <<nF>> THEN value.data
       ELSE IF value.shape = <<nc * nF>> THEN NormAxis1(ReshapeF(value, nF, nc))
       ELSE IF value.shape = <<nF, nc>> THEN NormAxis1(value)
       ELSE IF value.shape = <<nC>> THEN AveTimes(ave, value.data)
       ELSE IF value.shape = <<nc * nC>>
       THEN AveTimes(ave, NormAxis1(ReshapeF(value, nC, nc)))
       ELSE AveTimes(ave, NormAxis1(value))

RECURSIVE FaceProduct(_, _, _, _, _)
FaceProduct(entries, f, map, mesh, o) ==
    IF entries = <<>> THEN 1
    ELSE FaceContribution(Head(entries).value, map, mesh, o)[f]
            * FaceProduct(Tail(entries), f, map, mesh, o)

\* C10: for a smoothness term and weights of the accepted shapes, W is always
\* a square diagonal matrix of dimension nF that holds the square root of the
\* product of the weights, each reduced by its norm across the components and
\* then, when cell-based, averaged to the faces.
SmoothnessWOnFaces ==
    (cls = "AmplitudeSmoothnessFirstOrder" /\ call.op = "W")
    => /\ call.raised = "none"
       /\ IsSquareDiagonal(call.ret)
       /\ call.ret.shape[1] = NFaces(regularization_mesh, orientation)
       /\ \A f \in 1..NFaces(regularization_mesh, orientation) :
             Entry(call.ret, f, f) =
                 FaceProduct(_weights, f, mapping, regularization_mesh, orientation)
                   * FaceProduct(_weights, f, mapping, regularization_mesh, orientation)

\* C11: for each of the three classes a weight is either rejected with a
\* shape error when it is assigned, or, once accepted because its shape is in
\* _weights_shapes, never makes a later construction of W raise.
AcceptedWeightNeverRaisesLater ==
    /\ call.op = "set_weights" =>
          (call.raised = "none"
              <=> InSeq(call.arg[2].shape,
                        WeightsShapes(cls, mapping, regularization_mesh, orientation)))
    /\ \A p \in 1..Len(_weights) :
          InSeq(_weights[p].value.shape,
                WeightsShapes(cls, mapping, regularization_mesh, orientation))
    /\ call.op = "W" => call.raised = "none"

\* the matrix computed from the weights dictionary as it stands
CurrentW == BuildW(cls, _weights, mapping, regularization_mesh, orientation)

\* C19: after any sequence of set_weights and reads of W on one term, a read
\* of W returns the matrix computed from the weights as they stand at that
\* read, and stores it; a stored matrix is always the one the weights as they
\* stand give, and a registration of a weight leaves no stored matrix.
WIsNeverStale ==
    /\ _W.has => (CurrentW.raised = "none" /\ _W.v = CurrentW.v)
    /\ WBuilt => (_W.has /\ _W.v = call.ret /\ call.ret = CurrentW.v)
    /\ (call.op = "set_weights" /\ call.raised = "none") => ~_W.has

\* W was read after two weights of the user were registered, and is not the
\* matrix of the weights the constructor left
WIsNeverStaleSeen ==
    /\ WBuilt
    /\ Len(_weights) = 3
    /\ _W.has
    /\ call.ret # BuildW(cls, VolumeWeights(regularization_mesh), mapping,
                         regularization_mesh, orientation).v

RECURSIVE Power(_, _)
Power(b, e) == IF e = 0 THEN 1 ELSE b * Power(b, e - 1)

\* the product of the components of a cell of a per-component weight
ComponentProduct(value, i, d) ==
    LET row == Row(value, i)
        F[k \in 0..d] == IF k = 0 THEN 1 ELSE F[k - 1] * row[k]
    IN F[d]

\* C26: a weight of shape (n_cells, dim) given to a cross-reference term
\* enters W through the geometric mean g of its components in each cell,
\* g^dim = w_1 * ... * w_dim.  With the volume v of the cell the entry of
\* W^4 is e = (v * g)^2, so that e^dim = v^(2*dim) * (w_1 * ... * w_dim)^2.
CrossRefWeightIsGeometricMean ==
    LET nC  == regularization_mesh.nC
        dim == regularization_mesh.dim
    IN (/\ cls = "CrossReferenceRegularization"
        /\ WBuilt
        /\ Len(_weights) = 2
        /\ _weights[2].value.shape = <<nC, dim>>)
       => \A i \in 1..nC :
             Power(Entry(call.ret, i, i), dim) =
                 Power(regularization_mesh.vol[i], 2 * dim)
                     * ComponentProduct(_weights[2].value, i, dim)
                     * ComponentProduct(_weights[2].value, i, dim)

----------------------------------------------------------------------------
(* The amplitude of the amplitude terms *)

\* the length of the models the mapping takes
ModelSize(map, mesh) == IF map.star THEN mesh.dim * mesh.nC ELSE map.nP

\* the vectors a cell of a model of nc components is drawn from
AmplitudeRows(nc) == {Unit(nc, k) : k \in 1..nc} \cup {Prefix(<<-1, 3, 2>>, nc)}

AmplitudeModels(map, mesh) ==
    {Stacked(rows, mesh.nC, n_comp(map, mesh)) :
        rows \in [1..mesh.nC -> AmplitudeRows(n_comp(map, mesh))]}

\* the models the amplitude is evaluated at: the reference model among them
AmplitudeInputs(refmodel, map, mesh) ==
    AmplitudeModels(map, mesh)
    \cup (IF refmodel.has THEN {refmodel.v.data} ELSE {})
    \cup {ShortModel(mesh)}

\* a constructed amplitude term, with or without a reference model
InitAmp ==
    /\ composite = NoComposite
    /\ cls \in {"AmplitudeSmallness", "AmplitudeSmoothnessFirstOrder"}
    /\ regularization_mesh \in Meshes
    /\ orientation \in (IF cls = "AmplitudeSmoothnessFirstOrder"
                        THEN Orientations(regularization_mesh.dim) ELSE {"none"})
    /\ mapping \in Mappings(regularization_mesh)
    /\ reference_model \in
          {None, Some(Arr1(Ramp(ModelSize(mapping, regularization_mesh))))}
    /\ stage = "ready"
    /\ _ref_dir = None
    /\ _X = None
    /\ _weights = VolumeWeights(regularization_mesh)
    /\ _W = None
    /\ call = Call("__init__", <<>>, "none", <<>>)

\* reg.amplitude(m)
Eval_amplitude(m) ==
    /\ cls \in {"AmplitudeSmallness", "AmplitudeSmoothnessFirstOrder"}
    /\ stage = "ready"
    /\ LET r == amplitude(mapping, reference_model, regularization_mesh, m)
       IN call' = Call("amplitude", m, r.raised, r.v)
    /\ UNCHANGED << composite, cls, regularization_mesh, orientation, mapping, reference_model,
                    stage, _ref_dir, _X, _weights, _W >>

NextAmp ==
    \E m \in AmplitudeInputs(reference_model, mapping, regularization_mesh) :
        Eval_amplitude(m)

SpecAmp == InitAmp /\ [][NextAmp]_vars

\* the mapped, reference-shifted model of the last call
MappedShifted == MapApply(mapping, delta_m(reference_model, call.arg).v).v

\* C4: amplitude(m) has one entry per cell, the norm over the n_comp
\* components k of the mapped, reference-shifted model at flat index
\* k*nC + i; a 3-component model of amplitude 1 in every cell gives all ones
\* and the reference model itself gives the zero vector.  (Entries are
\* squared.)
AmplitudeIsCellNorm ==
    LET nC == regularization_mesh.nC
        nc == n_comp(mapping, regularization_mesh)
    IN (call.op = "amplitude" /\ Len(call.arg) = ModelSize(mapping, regularization_mesh))
       => /\ call.raised = "none"
          /\ Len(call.ret) = nC
          /\ \A i \in 1..nC :
                call.ret[i] =
                    SumTo([k \in 1..nc |->
                             MappedShifted[(k - 1) * nC + i] * MappedShifted[(k - 1) * nC + i]],
                          nc)
          /\ (/\ nc = 3
              /\ mapping.name = "IdentityMap"
              /\ ~reference_model.has
              /\ \A i \in 1..nC : \E k \in 1..3 :
                    [j \in 1..3 |-> call.arg[(j - 1) * nC + i]] = Unit(3, k))
             => call.ret = Ones(nC)
          /\ (reference_model.has /\ call.arg = reference_model.v.data)
             => call.ret = [i \in 1..nC |-> 0]

\* the amplitude of a model of three components on several cells was taken
\* against a reference model, and differs from cell to cell
AmplitudeIsCellNormSeen ==
    /\ call.op = "amplitude"
    /\ call.raised = "none"
    /\ n_comp(mapping, regularization_mesh) = 3
    /\ regularization_mesh.nC > 1
    /\ reference_model.has
    /\ call.ret[1] # call.ret[2]

----------------------------------------------------------------------------
(* The derivatives of the amplitude terms *)

AmplitudeClasses == {"AmplitudeSmallness", "AmplitudeSmoothnessFirstOrder"}

\* the vectors a cell of a model is drawn from: the zero vector, two unit
\* vectors and a vector of integer norm
DerivRows(nc) ==
    << [k \in 1..nc |-> 0], Unit(nc, 1), Unit(nc, nc), IntegerNormRow(nc, 1) >>

\* which of these vectors the odd and the even cells hold: amplitude 1
\* everywhere along two directions; cells of amplitude zero among others
DerivPatterns == { <<2, 3>>, <<4, 1>> }

\* the models the derivatives are evaluated at: the reference model among them
DerivModels(refmodel, map, mesh) ==
    {Stacked([i \in 1..mesh.nC |-> DerivRows(n_comp(map, mesh))[pat[2 - (i % 2)]]],
             mesh.nC, n_comp(map, mesh)) : pat \in DerivPatterns}
    \cup (IF refmodel.has THEN {refmodel.v.data} ELSE {})

\* the vectors the second derivative is applied to
DerivVectors(map, mesh) ==
    {Ramp(ModelSize(map, mesh)),
     [p \in 1..ModelSize(map, mesh) |-> IF p % 2 = 1 THEN 1 ELSE -2]}

\* the weights of a term: the volumes and one weight of the user, one value
\* per entry of the kernel
DerivWeights(c, mesh, o) ==
    Append(VolumeWeights(mesh),
           [key |-> "a",
            value |-> Arr1(Ramp(IF c = "AmplitudeSmallness" THEN mesh.nC
                                ELSE NFaces(mesh, o)))])

\* a constructed amplitude term, with or without a reference model
InitDeriv ==
    /\ composite = NoComposite
    /\ cls \in AmplitudeClasses
    /\ regularization_mesh \in Meshes
    /\ orientation \in (IF cls = "AmplitudeSmoothnessFirstOrder"
                        THEN Orientations(regularization_mesh.dim) ELSE {"none"})
    /\ mapping \in Mappings(regularization_mesh)
    /\ reference_model \in
          {None, Some(Arr1(Ramp(ModelSize(mapping, regularization_mesh))))}
    /\ stage = "ready"
    /\ _ref_dir = None
    /\ _X = None
    /\ _weights = DerivWeights(cls, regularization_mesh, orientation)
    /\ _W = None
    /\ call = Call("__init__", <<>>, "none", <<>>)

\* reg.f_m(m) of an amplitude term
Eval_amplitude_f_m(m) ==
    /\ cls \in AmplitudeClasses
    /\ stage = "ready"
    /\ LET r == IF cls = "AmplitudeSmallness"
                THEN Smallness_f_m(mapping, reference_model, regularization_mesh, m)
                ELSE Smoothness_f_m(mapping, reference_model, regularization_mesh,
                                    orientation, m)
       IN call' = Call("f_m", m, r.raised, r.v)
    /\ UNCHANGED << composite, cls, regularization_mesh, orientation, mapping,
                    reference_model, stage, _ref_dir, _X, _weights, _W >>

\* reg.f_m_deriv(m) of an amplitude term
Eval_amplitude_f_m_deriv(m) ==
    /\ cls \in AmplitudeClasses
    /\ stage = "ready"
    /\ LET r == Amplitude_f_m_deriv(cls, mapping, reference_model, regularization_mesh,
                                    orientation, m)
       IN call' = Call("f_m_deriv", m, r.raised, r.v)
    /\ UNCHANGED << composite, cls, regularization_mesh, orientation, mapping,
                    reference_model, stage, _ref_dir, _X, _weights, _W >>

\* reg.deriv(m): f_m_deriv(m) is evaluated, then the W property is read
Eval_deriv(m) ==
    /\ cls \in AmplitudeClasses
    /\ stage = "ready"
    /\ LET F == Amplitude_f_m_deriv(cls, mapping, reference_model, regularization_mesh,
                                    orientation, m)
           W == W_property(_W, cls, _weights, mapping, regularization_mesh, orientation)
       IN IF F.raised # "none"
          THEN /\ call' = Call("deriv", m, F.raised, <<>>)
               /\ UNCHANGED _W
          ELSE IF W.raised # "none"
          THEN /\ call' = Call("deriv", m, W.raised, <<>>)
               /\ _W' = W._W
          ELSE LET r == deriv(F.v, W.ret, n_comp(mapping, regularization_mesh),
                              reference_model, m)
               IN /\ call' = Call("deriv", m, r.raised, r.v)
                  /\ _W' = W._W
    /\ UNCHANGED << composite, cls, regularization_mesh, orientation, mapping,
                    reference_model, stage, _ref_dir, _X, _weights >>

\* reg.deriv2(m) and reg.deriv2(m, v)
Eval_deriv2(m, v) ==
    /\ cls \in AmplitudeClasses
    /\ stage = "ready"
    /\ LET F == Amplitude_f_m_deriv(cls, mapping, reference_model, regularization_mesh,
                                    orientation, m)
           W == W_property(_W, cls, _weights, mapping, regularization_mesh, orientation)
       IN IF F.raised # "none"
          THEN /\ call' = Call("deriv2", <<m, v>>, F.raised, <<>>)
               /\ UNCHANGED _W
          ELSE IF W.raised # "none"
          THEN /\ call' = Call("deriv2", <<m, v>>, W.raised, <<>>)
               /\ _W' = W._W
          ELSE LET r == deriv2(F.v, W.ret, n_comp(mapping, regularization_mesh), v)
               IN /\ call' = Call("deriv2", <<m, v>>, r.raised, r.v)
                  /\ _W' = W._W
    /\ UNCHANGED << composite, cls, regularization_mesh, orientation, mapping,
                    reference_model, stage, _ref_dir, _X, _weights >>

\* the amplitudes of the model are integers, so that the smoothness kernel is
AmplitudesAreIntegers(m) ==
    LET a == amplitude(mapping, reference_model, regularization_mesh, m)
    IN a.raised = "none" => HasExactRoots(a.v)

NextDeriv ==
    \/ \E m \in DerivModels(reference_model, mapping, regularization_mesh) :
          /\ cls = "AmplitudeSmoothnessFirstOrder" => AmplitudesAreIntegers(m)
          /\ Eval_amplitude_f_m(m)
    \/ \E m \in DerivModels(reference_model, mapping, regularization_mesh) :
          Eval_amplitude_f_m_deriv(m)
    \/ \E m \in DerivModels(reference_model, mapping, regularization_mesh) :
          Eval_deriv(m)
    \/ \E m \in DerivModels(reference_model, mapping, regularization_mesh) :
          \E v \in {None} \cup {Some(x) : x \in DerivVectors(mapping, regularization_mesh)} :
              Eval_deriv2(m, v)

SpecDeriv == InitDeriv /\ [][NextDeriv]_vars

----------------------------------------------------------------------------
(* Properties of the derivatives of the amplitude terms *)

NComp == n_comp(mapping, regularization_mesh)

\* the model of the last call of deriv2, and its vector
Deriv2Model == call.arg[1]

Deriv2Vector == call.arg[2]

\* C12: for every model m and every vector v, the matrix deriv2(m) times v
\* is the vector deriv2(m, v), for the smallness and the smoothness terms.
Deriv2MatrixAgreesWithMatrixFree ==
    (call.op = "deriv2" /\ Deriv2Vector.has)
    => LET F == Amplitude_f_m_deriv(cls, mapping, reference_model, regularization_mesh,
                                    orientation, Deriv2Model)
           H == deriv2(F.v, _W.v, NComp, None)
       IN /\ call.raised = "none"
          /\ _W.has
          /\ H.raised = "none"
          /\ DenseMatVec(H.v, Deriv2Vector.v) = Ok(call.ret)

\* deriv2(m, v) of an x-smoothness term of several components on several
\* cells, through a mapping that is not the identity, returned a vector
\* whose entries are not all the same
Deriv2MatrixAgreesWithMatrixFreeSeen ==
    /\ call.op = "deriv2"
    /\ Deriv2Vector.has
    /\ call.raised = "none"
    /\ cls = "AmplitudeSmoothnessFirstOrder"
    /\ orientation = "x"
    /\ mapping.name = "LinearMap"
    /\ regularization_mesh.nC > 1
    /\ NComp > 1
    /\ \E p \in 1..Len(call.ret) : call.ret[p] # call.ret[1]

\* the model of the last call of deriv or deriv2
DerivModel == IF call.op = "deriv2" THEN Deriv2Model ELSE call.arg

\* the squared amplitude of that model
DerivAmplitude ==
    amplitude(mapping, reference_model, regularization_mesh, DerivModel).v

\* C13: at a model with cells of amplitude zero, deriv(m) and deriv2(m, v)
\* return a vector of numbers, one per model parameter, without an error, and
\* the entries of the smallness gradient that belong to the cells of
\* amplitude zero are zero.
ZeroAmplitudeIsHarmless ==
    (/\ call.op \in {"deriv", "deriv2"}
     /\ call.op = "deriv2" => Deriv2Vector.has
     /\ \E i \in 1..regularization_mesh.nC : DerivAmplitude[i] = 0)
    => /\ call.raised = "none"
       /\ Len(call.ret) = ModelSize(mapping, regularization_mesh)
       /\ \A p \in 1..Len(call.ret) : call.ret[p] \in Int
       /\ (cls = "AmplitudeSmallness" /\ call.op = "deriv")
          => \A i \in 1..regularization_mesh.nC :
                DerivAmplitude[i] = 0 =>
                    \A k \in 1..NComp :
                        call.ret[(k - 1) * regularization_mesh.nC + i] = 0

\* the gradient of a smallness term with a mapping that mixes the components
\* was taken at a model with a cell of amplitude zero and a cell whose entries
\* of the gradient are not all zero
ZeroAmplitudeIsHarmlessSeen ==
    /\ call.op = "deriv"
    /\ call.raised = "none"
    /\ cls = "AmplitudeSmallness"
    /\ mapping.name = "LinearMap"
    /\ regularization_mesh.nC > 1
    /\ \E i \in 1..regularization_mesh.nC : DerivAmplitude[i] = 0
    /\ \E p \in 1..Len(call.ret) : call.ret[p] # 0

\* the model m with its entry j moved by h
Moved(m, j, h) == [p \in 1..Len(m) |-> IF p = j THEN m[p] + h ELSE m[p]]

\* the mapped, reference-shifted model
Shifted(m) == MapApply(mapping, delta_m(reference_model, m).v).v

\* the sum over the components k of cell i of d[k, i] * e[k, i]
CellDot(d, e, i) ==
    SumTo([k \in 1..NComp |->
              d[(k - 1) * regularization_mesh.nC + i]
                  * e[(k - 1) * regularization_mesh.nC + i]], NComp)

\* C14: f_m_deriv(m) is the Jacobian of f_m(m) with respect to m, with one
\* row per entry of f_m(m): for the cross-reference kernel column j is
\* f_m(m + e_j) - f_m(m); for the amplitude smallness kernel a = |d|, with d
\* the mapped, shifted model, row i satisfies a_i * J[i][j] = d_i . (dd_i/dm_j).
KernelDerivativeIsJacobian ==
    (call.op = "f_m_deriv" /\ call.raised = "none")
    => LET m == call.arg
           J == call.ret
       IN /\ cls = "CrossReferenceRegularization" =>
                /\ J.shape[1] = Len(f_m(_X.v, mapping, m).v)
                /\ \A j \in 1..Len(m) : \A i \in 1..J.shape[1] :
                      J.at[i][j] = f_m(_X.v, mapping, Moved(m, j, 1)).v[i]
                                      - f_m(_X.v, mapping, m).v[i]
          /\ cls = "AmplitudeSmallness" =>
                LET a == Smallness_f_m(mapping, reference_model, regularization_mesh, m).v
                    d == Shifted(m)
                IN /\ J.shape[1] = Len(a)
                   /\ \A j \in 1..Len(m) : \A i \in 1..Len(a) :
                         LET dd == Shifted(Moved(m, j, 1))
                             s  == CellDot(d, [p \in 1..Len(d) |-> dd[p] - d[p]], i)
                         IN /\ a[i] * J.at[i][j] * J.at[i][j] = s * s
                            /\ J.at[i][j] * s >= 0

\* twice the objective value 0.5 * ||W . f_m(m)||^2 of a smallness term
TwiceSmallnessObjective(m) ==
    LET a == Smallness_f_m(mapping, reference_model, regularization_mesh, m).v
    IN SumTo([i \in 1..Len(a) |-> WtW(_W.v).at[i][i] * a[i]], Len(a))

\* W . f_m(m) of a smoothness term is the zero vector
SmoothnessKernelVanishes(m) ==
    LET k == Smoothness_f_m(mapping, reference_model, regularization_mesh, orientation, m).v
    IN \A f \in 1..Len(k) : WtW(_W.v).at[f][f] * k[f] = 0

\* C15: deriv(m) of an amplitude term is the gradient of 0.5 * ||W.f_m(m)||^2:
\* for a smallness term, whose objective is quadratic in m, entry j is the
\* central difference (phi(m + e_j) - phi(m - e_j)) / 2; and for every
\* amplitude term deriv(m) is the zero vector where W.f_m(m) is zero.
DerivIsGradientOfObjective ==
    (call.op = "deriv" /\ call.raised = "none")
    => /\ cls = "AmplitudeSmallness" =>
             \A j \in 1..Len(call.arg) :
                 4 * call.ret[j] = TwiceSmallnessObjective(Moved(call.arg, j, 1))
                                      - TwiceSmallnessObjective(Moved(call.arg, j, -1))
       /\ (/\ cls = "AmplitudeSmoothnessFirstOrder"
           /\ HasExactRoots(DerivAmplitude)
           /\ SmoothnessKernelVanishes(call.arg))
          => \A p \in 1..Len(call.ret) : call.ret[p] = 0
       /\ (cls = "AmplitudeSmallness" /\ \A i \in 1..Len(DerivAmplitude) : DerivAmplitude[i] = 0)
          => \A p \in 1..Len(call.ret) : call.ret[p] = 0

\* C29: for both amplitude terms and every model m, deriv(m) is the vector
\* deriv2(m, v) at v = m - reference_model (m itself when there is no
\* reference model), and the matrix deriv2(m) is square and symmetric.
DerivIsDeriv2AtShiftedModel ==
    /\ call.op = "deriv" =>
          LET F == Amplitude_f_m_deriv(cls, mapping, reference_model, regularization_mesh,
                                       orientation, call.arg)
              v == delta_m(reference_model, call.arg)
              r == deriv2(F.v, _W.v, NComp, Some(v.v))
          IN /\ call.raised = "none"
             /\ v.raised = "none"
             /\ r.raised = "none"
             /\ r.v = call.ret
    /\ (call.op = "deriv2" /\ ~Deriv2Vector.has) =>
          /\ call.raised = "none"
          /\ call.ret.shape[1] = call.ret.shape[2]
          /\ \A i \in 1..call.ret.shape[1], j \in 1..call.ret.shape[2] :
                call.ret.at[i][j] = call.ret.at[j][i]

\* deriv(m) of a term with a reference model, on several cells and through a
\* mapping that is not the identity, returned a vector that is not zero
DerivIsDeriv2AtShiftedModelSeen ==
    /\ call.op = "deriv"
    /\ call.raised = "none"
    /\ reference_model.has
    /\ mapping.name = "LinearMap"
    /\ regularization_mesh.nC > 1
    /\ call.arg # reference_model.v.data
    /\ \E p \in 1..Len(call.ret) : call.ret[p] # 0

----------------------------------------------------------------------------
(* VectorAmplitude: the composite of a smallness term and of one smoothness *)
(* term per dimension of the mesh                                           *)

\* the classes of discretize.base.BaseMesh
BaseMeshTypes == {"TensorMesh"}

\* a mesh of discretize
MeshObject(nC, dim) == [type |-> "TensorMesh", nC |-> nC, dim |-> dim]

\* RegularizationMesh(mesh): a wrapper, an object of its own
RegularizationMesh(id, mesh) ==
    [type |-> "RegularizationMesh", id |-> id, mesh |-> mesh, active_cells |-> None]

\* a term constructed on a wrapper; a term given no mapping takes the identity
NewTerm(c, o, wrapper, map) ==
    [cls |-> c, orientation |-> o, regularization_mesh |-> wrapper,
     mapping |-> IF map.has THEN map.v ELSE IdentityStar]

\* the wrapper made anew even when a wrapper is given
VectorAmplitude_init_rewrap(mesh, map, active_cells) ==
    IF mesh.type \notin BaseMeshTypes \cup {"RegularizationMesh"}
    THEN [raised |-> "TypeError", composite |-> NoComposite]
    ELSE LET wrapped == IF mesh.type = "RegularizationMesh"
                        THEN RegularizationMesh("created", mesh.mesh)
                        ELSE RegularizationMesh("created", mesh)
             rm == IF active_cells.has
                   THEN [wrapped EXCEPT !.active_cells = active_cells] ELSE wrapped
             objfcts ==
                 << NewTerm("AmplitudeSmallness", "none", rm, map),
                    NewTerm("AmplitudeSmoothnessFirstOrder", "x", rm, map) >>
                 \o (IF rm.mesh.dim > 1
                     THEN << NewTerm("AmplitudeSmoothnessFirstOrder", "y", rm, map) >>
                     ELSE << >>)
                 \o (IF rm.mesh.dim > 2
                     THEN << NewTerm("AmplitudeSmoothnessFirstOrder", "z", rm, map) >>
                     ELSE << >>)
         IN [raised |-> "none",
             composite |-> [_regularization_mesh |-> Some(rm),
                            objfcts |-> objfcts, terms |-> objfcts]]

\* the type of the mesh checked after the attribute is set
VectorAmplitude_init_late(mesh, map, active_cells) ==
    IF mesh.type \notin BaseMeshTypes \cup {"RegularizationMesh"}
    THEN [raised |-> "TypeError",
          composite |-> [NoComposite EXCEPT !._regularization_mesh = Some(mesh)]]
    ELSE LET wrapped == IF mesh.type # "RegularizationMesh"
                        THEN RegularizationMesh("created", mesh) ELSE mesh
             rm == IF active_cells.has
                   THEN [wrapped EXCEPT !.active_cells = active_cells] ELSE wrapped
             objfcts ==
                 << NewTerm("AmplitudeSmallness", "none", rm, map),
                    NewTerm("AmplitudeSmoothnessFirstOrder", "x", rm, map) >>
                 \o (IF rm.mesh.dim > 1
                     THEN << NewTerm("AmplitudeSmoothnessFirstOrder", "y", rm, map) >>
                     ELSE << >>)
                 \o (IF rm.mesh.dim > 2
                     THEN << NewTerm("AmplitudeSmoothnessFirstOrder", "z", rm, map) >>
                     ELSE << >>)
         IN [raised |-> "none",
             composite |-> [_regularization_mesh |-> Some(rm),
                            objfcts |-> objfcts, terms |-> objfcts]]

\* the y term added on every mesh
VectorAmplitude_init_y(mesh, map, active_cells) ==
    IF mesh.type \notin BaseMeshTypes \cup {"RegularizationMesh"}
    THEN [raised |-> "TypeError", composite |-> NoComposite]
    ELSE LET wrapped == IF mesh.type # "RegularizationMesh"
                        THEN RegularizationMesh("created", mesh) ELSE mesh
             rm == IF active_cells.has
                   THEN [wrapped EXCEPT !.active_cells = active_cells] ELSE wrapped
             objfcts ==
                 << NewTerm("AmplitudeSmallness", "none", rm, map),
                    NewTerm("AmplitudeSmoothnessFirstOrder", "x", rm, map) >>
                 \o (IF rm.mesh.dim > 0
                     THEN << NewTerm("AmplitudeSmoothnessFirstOrder", "y", rm, map) >>
                     ELSE << >>)
                 \o (IF rm.mesh.dim > 2
                     THEN << NewTerm("AmplitudeSmoothnessFirstOrder", "z", rm, map) >>
                     ELSE << >>)
         IN [raised |-> "none",
             composite |-> [_regularization_mesh |-> Some(rm),
                            objfcts |-> objfcts, terms |-> objfcts]]

\* VectorAmplitude.__init__: the error it raises and the composite it leaves
VectorAmplitude_init(mesh, map, active_cells) ==
    IF mesh.type \notin BaseMeshTypes \cup {"RegularizationMesh"}
    THEN [raised |-> "TypeError", composite |-> NoComposite]
    ELSE LET wrapped == IF mesh.type # "RegularizationMesh"
                        THEN RegularizationMesh("created", mesh) ELSE mesh
             rm == IF active_cells.has
                   THEN [wrapped EXCEPT !.active_cells = active_cells] ELSE wrapped
             objfcts ==
                 << NewTerm("AmplitudeSmallness", "none", rm, map),
                    NewTerm("AmplitudeSmoothnessFirstOrder", "x", rm, map) >>
                 \o (IF rm.mesh.dim > 1
                     THEN << NewTerm("AmplitudeSmoothnessFirstOrder", "y", rm, map) >>
                     ELSE << >>)
                 \o (IF rm.mesh.dim > 2
                     THEN << NewTerm("AmplitudeSmoothnessFirstOrder", "z", rm, map) >>
                     ELSE << >>)
         IN [raised |-> "none",
             composite |-> [_regularization_mesh |-> Some(rm),
                            objfcts |-> objfcts, terms |-> objfcts]]

\* the meshes handed to the constructor: meshes, wrappers, and other objects
MeshArguments ==
    {MeshObject(n, d) : n \in 1..MaxNC, d \in 1..3}
    \cup {RegularizationMesh("given", MeshObject(n, d)) : n \in 1..MaxNC, d \in 1..3}
    \cup {[type |-> "ndarray"], [type |-> "NoneType"], [type |-> "str"]}

\* the raw mesh of a recognized mesh argument
RawOf(mesh) == IF mesh.type = "RegularizationMesh" THEN mesh.mesh ELSE mesh

Recognized(mesh) == mesh.type \in BaseMeshTypes \cup {"RegularizationMesh"}

MappingArguments(mesh) ==
    {None, Some(IdentityStar)}
    \cup (IF Recognized(mesh)
          THEN {Some(LinearMap(ShearMatrix(RawOf(mesh).nC, RawOf(mesh).dim))),
                Some(IdentityMap(OtherComp(RawOf(mesh).dim) * RawOf(mesh).nC))}
          ELSE {})

ActiveCellsArguments(mesh) ==
    {None}
    \cup (IF Recognized(mesh)
          THEN {Some([i \in 1..RawOf(mesh).nC |-> TRUE]),
                Some([i \in 1..RawOf(mesh).nC |-> i % 2 = 1])}
          ELSE {})

\* before the constructor is called
InitVA ==
    /\ composite = NoComposite
    /\ cls = "VectorAmplitude"
    /\ regularization_mesh = None
    /\ orientation = "none"
    /\ mapping = None
    /\ reference_model = None
    /\ stage = "new"
    /\ _ref_dir = None
    /\ _X = None
    /\ _weights = << >>
    /\ _W = None
    /\ call = Call("none", <<>>, "none", <<>>)

\* VectorAmplitude(mesh, mapping=map, active_cells=active_cells)
ConstructVectorAmplitude(mesh, map, active_cells) ==
    /\ cls = "VectorAmplitude"
    /\ stage = "new"
    /\ LET r == VectorAmplitude_init(mesh, map, active_cells)
       IN /\ composite' = r.composite
          /\ stage' = IF r.raised = "none" THEN "ready" ELSE "raised"
          /\ call' = Call("VectorAmplitude", <<mesh, map, active_cells>>, r.raised, <<>>)
    /\ UNCHANGED << cls, regularization_mesh, orientation, mapping, reference_model,
                    _ref_dir, _X, _weights, _W >>

NextVA ==
    \E mesh \in MeshArguments :
        \E map \in MappingArguments(mesh) :
            \E active_cells \in ActiveCellsArguments(mesh) :
                ConstructVectorAmplitude(mesh, map, active_cells)

SpecVA == InitVA /\ [][NextVA]_vars

----------------------------------------------------------------------------
(* Properties of VectorAmplitude *)

Constructed == call.op = "VectorAmplitude"

MeshArgument == call.arg[1]

MappingArgument == call.arg[2]

\* the orientation of the k-th smoothness term
OrientationOf(k) == <<"x", "y", "z">>[k]

\* C16: a VectorAmplitude built on a mesh of dimension d holds exactly 1 + d
\* terms: an AmplitudeSmallness, then an AmplitudeSmoothnessFirstOrder for x,
\* for y only if d > 1 and for z only if d > 2; every term references the one
\* regularization mesh of the composite (the wrapper given, or the one
\* wrapper made from the mesh given) and the same mapping.
CompositeHoldsTermsInOrder ==
    (Constructed /\ call.raised = "none")
    => LET rm    == composite._regularization_mesh.v
           terms == composite.objfcts
       IN /\ composite._regularization_mesh.has
          /\ rm.type = "RegularizationMesh"
          /\ rm.mesh = RawOf(MeshArgument)
          /\ rm.id = (IF MeshArgument.type = "RegularizationMesh"
                      THEN MeshArgument.id ELSE "created")
          /\ Len(terms) = 1 + rm.mesh.dim
          /\ composite.terms = terms
          /\ terms[1].cls = "AmplitudeSmallness"
          /\ \A k \in 2..Len(terms) :
                /\ terms[k].cls = "AmplitudeSmoothnessFirstOrder"
                /\ terms[k].orientation = OrientationOf(k - 1)
          /\ \A k \in 1..Len(terms) :
                /\ terms[k].regularization_mesh = rm
                /\ terms[k].mapping = terms[1].mapping
                /\ MappingArgument.has => terms[k].mapping = MappingArgument.v

\* a composite was built on a wrapper given by the caller, of a 3-D mesh, with
\* a mapping and a mask of active cells
CompositeHoldsTermsInOrderSeen ==
    /\ Constructed
    /\ call.raised = "none"
    /\ MeshArgument.type = "RegularizationMesh"
    /\ MeshArgument.mesh.dim = 3
    /\ MappingArgument.has
    /\ MappingArgument.v.name = "LinearMap"
    /\ composite._regularization_mesh.v.active_cells.has
    /\ Len(composite.objfcts) = 4

\* C17: a mesh argument that is neither a BaseMesh nor a RegularizationMesh
\* makes the constructor raise TypeError before any term is constructed and
\* before any attribute of the composite is set; no other argument does.
BadMeshTypeRaisesFirst ==
    Constructed =>
        /\ ~Recognized(MeshArgument) =>
              /\ call.raised = "TypeError"
              /\ ~composite._regularization_mesh.has
              /\ composite.terms = << >>
              /\ composite.objfcts = << >>
        /\ call.raised = "TypeError" => ~Recognized(MeshArgument)

\* the constructor was called with an array in the place of the mesh, and
\* with a mapping
BadMeshTypeRaisesFirstSeen ==
    /\ Constructed
    /\ MeshArgument.type = "ndarray"
    /\ MappingArgument.has
    /\ call.raised = "TypeError"
    /\ stage = "raised"

\* C18 as stated: the constructor raises on a 1-D mesh before any term is
\* allocated.
OneDimensionalMeshRaises ==
    (Constructed /\ Recognized(MeshArgument) /\ RawOf(MeshArgument).dim = 1)
    => /\ call.raised # "none"
       /\ composite.terms = << >>

\* C18 as amended: on a 1-D mesh the constructor raises nothing and allocates
\* two terms, the smallness term and the smoothness term for x.
OneDimensionalMeshBuildsTwoTerms ==
    (Constructed /\ Recognized(MeshArgument) /\ RawOf(MeshArgument).dim = 1)
    => /\ call.raised = "none"
       /\ Len(composite.terms) = 2
       /\ composite.terms = composite.objfcts
       /\ composite.objfcts[1].cls = "AmplitudeSmallness"
       /\ composite.objfcts[2].cls = "AmplitudeSmoothnessFirstOrder"
       /\ composite.objfcts[2].orientation = "x"

\* the constructor was called with a 1-D mesh of several cells, not wrapped
OneDimensionalMeshBuildsTwoTermsSeen ==
    /\ Constructed
    /\ MeshArgument.type = "TensorMesh"
    /\ MeshArgument.dim = 1
    /\ MeshArgument.nC > 1
    /\ stage = "ready"

----------------------------------------------------------------------------
(* Several terms side by side: the terms of one VectorAmplitude, or two    *)
(* cross-reference terms constructed on one mesh and one mapping.  Here    *)
(* _weights, _W, _ref_dir and _X hold one value per term, in the order of  *)
(* composite.terms.                                                        *)

\* an attribute of the class, the same object for every instance
SetAttr_shared(fields, k, v) == [j \in DOMAIN fields |-> v]

\* self.<attribute> = v on the k-th term
SetAttr(fields, k, v) == [fields EXCEPT ![k] = v]

\* the weight of the user registered on a term, and one of no accepted shape
TermWeightInputs(t, mesh) ==
    {Arr1(Ramp(IF t.cls = "AmplitudeSmoothnessFirstOrder"
               THEN NFaces(mesh, t.orientation) ELSE mesh.nC)),
     Array(<<>>, <<1>>)}

\* the reference fields assigned to a term
TermRefDirInputs(mesh) ==
    {Arr1(v) : v \in RefRows(mesh.dim)} \cup {Array(<<>>, <<1>>)}

\* two cross-reference terms constructed on one wrapper and one mapping
TwoCrossReferenceTerms(mesh, map) ==
    LET rm == RegularizationMesh("created", MeshObject(mesh.nC, mesh.dim))
        t  == NewTerm("CrossReferenceRegularization", "none", rm, Some(map))
    IN [NoComposite EXCEPT !.terms = << t, t >>]

\* the terms after their constructors
InitTerms ==
    /\ cls \in {"VectorAmplitude", "CrossReferenceRegularization"}
    /\ regularization_mesh \in Meshes
    /\ cls = "CrossReferenceRegularization" => regularization_mesh.dim > 1
    /\ orientation = "none"
    /\ mapping \in Mappings(regularization_mesh)
    /\ reference_model = None
    /\ stage = "ready"
    /\ composite =
          (IF cls = "VectorAmplitude"
           THEN VectorAmplitude_init(
                    MeshObject(regularization_mesh.nC, regularization_mesh.dim),
                    Some(mapping), None).composite
           ELSE TwoCrossReferenceTerms(regularization_mesh, mapping))
    /\ LET r == ref_dir_setter(None, None, regularization_mesh,
                               Arr1(Prefix(<<2, -1, 3>>, regularization_mesh.dim)))
       IN /\ _ref_dir = [k \in 1..Len(composite.terms) |->
                           IF cls = "CrossReferenceRegularization" THEN r._ref_dir ELSE None]
          /\ _X = [k \in 1..Len(composite.terms) |->
                     IF cls = "CrossReferenceRegularization" THEN r._X ELSE None]
    /\ _weights = [k \in 1..Len(composite.terms) |-> VolumeWeights(regularization_mesh)]
    /\ _W = [k \in 1..Len(composite.terms) |-> None]
    /\ call = Call("__init__", <<0>>, "none", <<>>)

\* composite.terms[k].set_weights(key=value)
SetWeightsOf(k, key, value) ==
    /\ stage = "ready"
    /\ LET t == composite.terms[k]
       IN IF InSeq(value.shape,
                   WeightsShapes(t.cls, t.mapping, regularization_mesh, t.orientation))
          THEN /\ _weights' = SetAttr(_weights, k, Put(_weights[k], key, value))
               /\ _W' = SetAttr(_W, k, None)
               /\ call' = Call("set_weights", <<k, key, value>>, "none", <<>>)
          ELSE /\ UNCHANGED << _weights, _W >>
               /\ call' = Call("set_weights", <<k, key, value>>, "ValueError", <<>>)
    /\ UNCHANGED << composite, cls, regularization_mesh, orientation, mapping, reference_model,
                    stage, _ref_dir, _X >>

\* composite.terms[k].W
ReadWOf(k) ==
    /\ stage = "ready"
    /\ LET t == composite.terms[k]
           r == W_property(_W[k], t.cls, _weights[k], t.mapping, regularization_mesh,
                           t.orientation)
       IN /\ _W' = SetAttr(_W, k, r._W)
          /\ call' = Call("W", <<k>>, r.raised, r.ret)
    /\ UNCHANGED << composite, cls, regularization_mesh, orientation, mapping, reference_model,
                    stage, _ref_dir, _X, _weights >>

\* composite.terms[k].ref_dir = value, on a cross-reference term
SetRefDirOf(k, value) ==
    /\ stage = "ready"
    /\ composite.terms[k].cls = "CrossReferenceRegularization"
    /\ LET r == ref_dir_setter(_ref_dir[k], _X[k], regularization_mesh, value)
       IN /\ _ref_dir' = SetAttr(_ref_dir, k, r._ref_dir)
          /\ _X' = SetAttr(_X, k, r._X)
          /\ call' = Call("ref_dir", <<k, value>>, r.raised, <<>>)
    /\ UNCHANGED << composite, cls, regularization_mesh, orientation, mapping, reference_model,
                    stage, _weights, _W >>

NextTerms ==
    \/ \E k \in 1..Len(composite.terms) :
          \E value \in TermWeightInputs(composite.terms[k], regularization_mesh) :
              SetWeightsOf(k, "a", value)
    \/ \E k \in 1..Len(composite.terms) : ReadWOf(k)
    \/ \E k \in 1..Len(composite.terms) :
          \E value \in TermRefDirInputs(regularization_mesh) : SetRefDirOf(k, value)

SpecTerms == InitTerms /\ [][NextTerms]_vars

----------------------------------------------------------------------------
(* Properties of terms side by side *)

\* C21: the cached W and the operator X belong to one term: a registration of
\* a weight on, a read of W of, or an assignment of ref_dir to one term leaves
\* the weights, the cached W, the reference field and the X of every other
\* term as they were, the terms of one VectorAmplitude included.
TermCachesAreSeparate ==
    [][\A j \in 1..Len(composite.terms) :
          j # call'.arg[1] =>
              /\ _W'[j] = _W[j]
              /\ _X'[j] = _X[j]
              /\ _weights'[j] = _weights[j]
              /\ _ref_dir'[j] = _ref_dir[j]]_vars

\* a weight was registered on the second term of a VectorAmplitude while the
\* first and the third hold cached matrices that differ
TermCachesAreSeparateSeen ==
    /\ cls = "VectorAmplitude"
    /\ Len(composite.terms) > 2
    /\ call.op = "set_weights"
    /\ call.raised = "none"
    /\ call.arg[1] = 2
    /\ _W[1].has
    /\ _W[3].has
    /\ ~_W[2].has
    /\ _W[1].v # _W[3].v

----------------------------------------------------------------------------
(* CrossReferenceRegularization: the constructor with its keywords, and the *)
(* reference model                                                          *)

\* kwargs.pop("reference_model", None)
PopReferenceModel(kwargs) == [kwargs EXCEPT !.reference_model = None]

\* super().__init__(mesh=..., **kwargs): the base classes store the weights
\* of the cell volumes and the reference model given, if any
SuperInit(mesh, kwargs) ==
    [reference_model |-> kwargs.reference_model, _weights |-> VolumeWeights(mesh)]

\* a constructor that hands every keyword to the base classes and leaves the
\* reference model they stored
CrossReference_init_kept(mesh, value, kwargs) ==
    LET base == SuperInit(mesh, kwargs)
        r    == ref_dir_setter(None, None, mesh, value)
    IN [raised |-> r.raised,
        reference_model |-> base.reference_model,
        _weights |-> base._weights, _ref_dir |-> r._ref_dir, _X |-> r._X]

\* CrossReferenceRegularization.__init__: the fields it leaves and the error
\* it raises
CrossReference_init(mesh, value, kwargs) ==
    LET base == SuperInit(mesh, PopReferenceModel(kwargs))
        r    == ref_dir_setter(None, None, mesh, value)
    IN [raised |-> r.raised,
        reference_model |-> IF r.raised = "none" THEN Some(Array(<<>>, <<0>>))
                            ELSE base.reference_model,
        _weights |-> base._weights, _ref_dir |-> r._ref_dir, _X |-> r._X]

\* the keywords given to the constructor: none, or a reference model
KeywordInputs(map, mesh) ==
    {[reference_model |-> None],
     [reference_model |-> Some(Arr1(Ones(ModelSize(map, mesh))))],
     [reference_model |-> Some(Arr1(Ramp(ModelSize(map, mesh))))]}

\* the reference models assigned after construction
ReferenceModelInputs(map, mesh) ==
    {Array(<<>>, <<0>>), Arr1(Ones(ModelSize(map, mesh))), Arr1(Ramp(ModelSize(map, mesh)))}

\* before the constructor is called
InitCtor ==
    /\ composite = NoComposite
    /\ cls = "CrossReferenceRegularization"
    /\ regularization_mesh \in Meshes
    /\ orientation = "none"
    /\ mapping \in Mappings(regularization_mesh)
    /\ reference_model = None
    /\ stage = "new"
    /\ _ref_dir = None
    /\ _X = None
    /\ _weights = << >>
    /\ _W = None
    /\ call = Call("none", <<>>, "none", <<>>)

\* CrossReferenceRegularization(mesh, value, mapping=mapping, **kwargs)
ConstructCrossReference(value, kwargs) ==
    /\ cls = "CrossReferenceRegularization"
    /\ stage = "new"
    /\ LET r == CrossReference_init(regularization_mesh, value, kwargs)
       IN /\ reference_model' = r.reference_model
          /\ _weights' = r._weights
          /\ _ref_dir' = r._ref_dir
          /\ _X' = r._X
          /\ stage' = IF r.raised = "none" THEN "ready" ELSE "raised"
          /\ call' = Call("__init__", <<value, kwargs>>, r.raised, <<>>)
    /\ UNCHANGED << composite, cls, regularization_mesh, orientation, mapping, _W >>

\* reg.reference_model = value
SetReferenceModel(value) ==
    /\ cls = "CrossReferenceRegularization"
    /\ stage = "ready"
    /\ reference_model' = Some(value)
    /\ call' = Call("reference_model", value, "none", <<>>)
    /\ UNCHANGED << composite, cls, regularization_mesh, orientation, mapping,
                    stage, _ref_dir, _X, _weights, _W >>

NextCtor ==
    \/ \E value \in TermRefDirInputs(regularization_mesh) :
          \E kwargs \in KeywordInputs(mapping, regularization_mesh) :
              ConstructCrossReference(value, kwargs)
    \/ \E value \in ReferenceModelInputs(mapping, regularization_mesh) :
          SetReferenceModel(value)
    \/ /\ stage = "ready"
       /\ \E m \in ModelInputs(_ref_dir.v, regularization_mesh) : Eval_f_m(m)

SpecCtor == InitCtor /\ [][NextCtor]_vars

----------------------------------------------------------------------------
(* Properties of the constructor and the reference model *)

\* C22: a reference_model keyword given to the constructor is discarded: after
\* construction reference_model is zero whatever was given; and f_m(m) is
\* X (mapping m) with no shift by the reference model, whatever the reference
\* model is when f_m is called.
ReferenceModelIsDiscarded ==
    /\ (call.op = "__init__" /\ call.raised = "none")
       => reference_model = Some(Array(<<>>, <<0>>))
    /\ call.op = "f_m" =>
          LET mapped == MapApply(mapping, call.arg)
              X      == BuildX(_ref_dir.v, regularization_mesh.nC).v
          IN IF mapped.raised # "none" THEN call.raised = mapped.raised
             ELSE /\ call.raised = MatVec(X, mapped.v).raised
                  /\ call.ret = MatVec(X, mapped.v).v

\* the constructor returned after it was given a reference model
ReferenceModelIsDiscardedSeen ==
    /\ call.op = "__init__"
    /\ call.raised = "none"
    /\ call.arg[2].reference_model.has
    /\ call.arg[2].reference_model.v # Array(<<>>, <<0>>)
    /\ stage = "ready"

----------------------------------------------------------------------------
(* A cross-reference term on a 2-D mesh of four cells whose reference      *)
(* field alternates between the x and the y direction                      *)

\* the reference field [[1,0],[0,1],[1,0],[0,1]]
AlternatingRefDir ==
    FromRows(<< <<1, 0>>, <<0, 1>>, <<1, 0>>, <<0, 1>> >>, 4, 2)

\* the 2-D mesh of as many cells as the field has rows
FourCellMesh == Mesh(AlternatingRefDir.shape[1], AlternatingRefDir.shape[2])

\* the fields whose cells point along x or along y
AxisRefDirs ==
    {FromRows(rows, FourCellMesh.nC, FourCellMesh.dim) :
        rows \in [1..FourCellMesh.nC -> {<<1, 0>>, <<0, 1>>}]}

\* the model (1, 0) in every cell, as two stacked blocks
XDirectedModel == Stacked([i \in 1..FourCellMesh.nC |-> <<1, 0>>], FourCellMesh.nC, FourCellMesh.dim)

\* the models of the length the kernel takes whose cells hold (1, 0), (0, 1)
\* or (1, 1), and the model [1,0,1,0] of one value per cell
FourCellModels ==
    {Stacked(rows, FourCellMesh.nC, FourCellMesh.dim) :
        rows \in [1..FourCellMesh.nC -> {<<1, 0>>, <<0, 1>>, <<1, 1>>}]}
    \cup {<<1, 0, 1, 0>>}

\* after super().__init__ of the constructor, mapping left to its default
InitFourCells ==
    /\ composite = NoComposite
    /\ cls = "CrossReferenceRegularization"
    /\ regularization_mesh = FourCellMesh
    /\ orientation = "none"
    /\ mapping = IdentityStar
    /\ reference_model = None
    /\ stage = "super"
    /\ _ref_dir = None
    /\ _X = None
    /\ _weights = VolumeWeights(regularization_mesh)
    /\ _W = None
    /\ call = Call("super().__init__", <<>>, "none", <<>>)

NextFourCells ==
    \/ \E value \in AxisRefDirs : Construct(value)
    \/ \E m \in FourCellModels : Eval_f_m(m)

SpecFourCells == InitFourCells /\ [][NextFourCells]_vars

\* C25 as stated: with the reference field [[1,0],[0,1],[1,0],[0,1]] and the
\* model m = [1,0,1,0], f_m returns a residual that is zero in cells 0 and 2
\* and non-zero in cells 1 and 3.
AlternatingResidual ==
    (call.op = "f_m" /\ _ref_dir.v = AlternatingRefDir /\ call.arg = <<1, 0, 1, 0>>)
    => /\ call.raised = "none"
       /\ call.ret[1] = 0
       /\ call.ret[3] = 0
       /\ call.ret[2] # 0
       /\ call.ret[4] # 0

\* C25 as amended: with the reference field [[1,0],[0,1],[1,0],[0,1]] and the
\* model of the vector (1, 0) in every cell, m = [1,1,1,1,0,0,0,0], f_m
\* returns four residuals, zero in cells 0 and 2 and non-zero in cells 1 and 3.
AlternatingResidualOfStackedModel ==
    (call.op = "f_m" /\ _ref_dir.v = AlternatingRefDir /\ call.arg = XDirectedModel)
    => /\ call.raised = "none"
       /\ Len(call.ret) = 4
       /\ call.ret[1] = 0
       /\ call.ret[3] = 0
       /\ call.ret[2] # 0
       /\ call.ret[4] # 0

\* f_m was called with the model [1,1,1,1,0,0,0,0] on the alternating field
AlternatingResidualOfStackedModelSeen ==
    /\ call.op = "f_m"
    /\ _ref_dir.v = AlternatingRefDir
    /\ call.arg = <<1, 1, 1, 1, 0, 0, 0, 0>>
    /\ call.arg = XDirectedModel

====
